---- MODULE Spec2Model ----
(***************************************************************************)
(* Dexter agent: the conversation driver (DexterAgent.chat and             *)
(* reset_conversation, main.py), the retry executor and the error          *)
(* classifier (with_retry, classify_error, lib/ai/error_handler.py) and    *)
(* the completion client's failure wrapping (generate_response,            *)
(* lib/ai/openai_service.py).                                              *)
(*                                                                         *)
(* Texts that the code inspects (error descriptions) are sequences of      *)
(* one-character strings, so that lower(), concatenation and the           *)
(* substring test are computed.  Texts the code only passes along          *)
(* (message contents, tool names, ids) are plain values.                   *)
(***************************************************************************)
EXTENDS Integers, Sequences, FiniteSets, TLC

(***************************************************************************)
(* Bounds of the model.                                                    *)
(***************************************************************************)
\* chat() calls started in one behaviour
MaxSends == 2
\* tool invocations the completion service requests within one transcript
MaxInvocations == 10
\* largest max_retries with_retry is exercised with on its own
MaxRetriesArg == 3
\* largest base_delay with_retry is exercised with on its own
MaxBaseDelay == 2
\* most failures an operation given to with_retry makes before it settles
MaxScriptLen == 3
\* RateLimiter: the largest max_requests and time_window, the coroutines
\* sharing one limiter, the acquire() calls made in all and the last instant
MaxLimit == 3
MaxWindow == 2
MaxCallers == 3
MaxAcquires == 5
MaxTime == 4
\* OpenAIService: the longest text given to estimate_tokens, the longest
\* transcript and the largest max_tokens given to trim_conversation_history
MaxTextLen == 60
MaxMessages == 4
MaxTokens == 6

(***************************************************************************)
(* Program constants.                                                      *)
(***************************************************************************)
\* main.py:176  max_iterations = 10
max_iterations == 10
\* main.py:126  @retry_on_error(max_retries=3, base_delay=1.0)
call_openai_max_retries == 3
call_openai_base_delay == 1
\* error_handler.py:39  RateLimitError(retry_after=60)
RateLimitRetryAfter == 60
\* error_handler.py:66  ServiceUnavailableError(retry_after=30)
ServiceUnavailableRetryAfter == 30
\* Optional[int] None (status_code, retry_after): tested only for truthiness
NoneInt == 0

(***************************************************************************)
(* Error texts: str(error), lower(), "marker in error_str".                *)
(***************************************************************************)
LowerChar(c) ==
    CASE c = "A" -> "a" [] c = "B" -> "b" [] c = "C" -> "c" [] c = "D" -> "d"
      [] c = "E" -> "e" [] c = "F" -> "f" [] c = "G" -> "g" [] c = "H" -> "h"
      [] c = "I" -> "i" [] c = "J" -> "j" [] c = "K" -> "k" [] c = "L" -> "l"
      [] c = "M" -> "m" [] c = "N" -> "n" [] c = "O" -> "o" [] c = "P" -> "p"
      [] c = "Q" -> "q" [] c = "R" -> "r" [] c = "S" -> "s" [] c = "T" -> "t"
      [] c = "U" -> "u" [] c = "V" -> "v" [] c = "W" -> "w" [] c = "X" -> "x"
      [] c = "Y" -> "y" [] c = "Z" -> "z" [] OTHER -> c

\* str.lower()
Lower(s) == [i \in 1..Len(s) |-> LowerChar(s[i])]

\* the Python test  m in s  on strings: m occurs in s as a contiguous run
Contains(s, m) ==
    \E i \in 0..(Len(s) - Len(m)) : \A j \in 1..Len(m) : s[i + j] = m[j]

\* the markers classify_error looks for
M_rate_limit == <<"r","a","t","e"," ","l","i","m","i","t">>
M_429 == <<"4","2","9">>
M_authentication == <<"a","u","t","h","e","n","t","i","c","a","t","i","o","n">>
M_401 == <<"4","0","1">>
M_api_key == <<"a","p","i"," ","k","e","y">>
M_400 == <<"4","0","0">>
M_invalid == <<"i","n","v","a","l","i","d">>
M_503 == <<"5","0","3">>
M_unavailable == <<"u","n","a","v","a","i","l","a","b","l","e">>
M_timeout == <<"t","i","m","e","o","u","t">>
M_context_length == <<"c","o","n","t","e","x","t"," ","l","e","n","g","t","h">>
M_token_limit == <<"t","o","k","e","n"," ","l","i","m","i","t">>

\* OpenAIError(message, status_code, retryable, retry_after) and its subclasses
OpenAIError(cls, message, status_code, retryable, retry_after) ==
    [cls |-> cls, message |-> message, status_code |-> status_code,
     retryable |-> retryable, retry_after |-> retry_after]

RateLimitError(message) ==
    OpenAIError("RateLimitError", message, 429, TRUE, RateLimitRetryAfter)

\* faulty variant of AuthenticationError: marked retryable
AuthenticationErrorRetryable(message) ==
    OpenAIError("AuthenticationError", message, 401, TRUE, NoneInt)

AuthenticationError(message) ==
    OpenAIError("AuthenticationError", message, 401, FALSE, NoneInt)

InvalidRequestError(message) ==
    OpenAIError("InvalidRequestError", message, 400, FALSE, NoneInt)

ServiceUnavailableError(message) ==
    OpenAIError("ServiceUnavailableError", message, 503, TRUE,
                ServiceUnavailableRetryAfter)

ContextLengthExceededError(message) ==
    OpenAIError("ContextLengthExceededError", message, 400, FALSE, NoneInt)

\* classify_error(error): error is the text str(error)
\* faulty variant of classify_error: the invalid-request markers are looked
\* for before the authentication markers
classify_error_InvalidFirst(error) ==
    LET error_str == Lower(error) IN
    IF Contains(error_str, M_rate_limit) \/ Contains(error_str, M_429)
    THEN RateLimitError(error)
    ELSE IF Contains(error_str, M_400) \/ Contains(error_str, M_invalid)
    THEN InvalidRequestError(error)
    ELSE IF Contains(error_str, M_authentication) \/ Contains(error_str, M_401)
            \/ Contains(error_str, M_api_key)
    THEN AuthenticationError(error)
    ELSE IF Contains(error_str, M_503) \/ Contains(error_str, M_unavailable)
            \/ Contains(error_str, M_timeout)
    THEN ServiceUnavailableError(error)
    ELSE IF Contains(error_str, M_context_length)
            \/ Contains(error_str, M_token_limit)
    THEN ContextLengthExceededError(error)
    ELSE OpenAIError("OpenAIError", error, NoneInt, TRUE, NoneInt)

classify_error(error) ==
    LET error_str == Lower(error) IN
    IF Contains(error_str, M_rate_limit) \/ Contains(error_str, M_429)
    THEN RateLimitError(error)
    ELSE IF Contains(error_str, M_authentication) \/ Contains(error_str, M_401)
            \/ Contains(error_str, M_api_key)
    THEN AuthenticationError(error)
    ELSE IF Contains(error_str, M_400) \/ Contains(error_str, M_invalid)
    THEN InvalidRequestError(error)
    ELSE IF Contains(error_str, M_503) \/ Contains(error_str, M_unavailable)
            \/ Contains(error_str, M_timeout)
    THEN ServiceUnavailableError(error)
    ELSE IF Contains(error_str, M_context_length)
            \/ Contains(error_str, M_token_limit)
    THEN ContextLengthExceededError(error)
    ELSE OpenAIError("OpenAIError", error, NoneInt, TRUE, NoneInt)

(***************************************************************************)
(* The completion service and the tools, as the driver sees them.          *)
(***************************************************************************)
\* OpenAIServiceError(f"Fehler bei OpenAI API Call: {str(e)}")
ServiceErrorPrefix == <<"F","e","h","l","e","r"," ","b","e","i"," ","O","p","e","n","A","I"," ","A","P","I"," ","C","a","l","l",":"," ">>

\* OpenAIError("Unexpected error in retry logic")
UnexpectedRetryMessage == <<"U","n","e","x","p","e","c","t","e","d"," ","e","r","r","o","r"," ","i","n"," ","r","e","t","r","y"," ","l","o","g","i","c">>

\* failure descriptions an operation can raise, one per error kind
E_rate == <<"E","r","r","o","r"," ","4","2","9">>
E_auth == <<"I","n","v","a","l","i","d"," ","A","P","I"," ","k","e","y">>
E_bad == <<"E","r","r","o","r"," ","4","0","0">>
E_unavail == <<"T","i","m","e","o","u","t">>
E_ctx == <<"T","o","k","e","n"," ","l","i","m","i","t">>
E_other == <<"b","o","o","m">>

ErrTexts == {E_rate, E_auth, E_bad, E_unavail, E_ctx, E_other}

\* the texts classify_error is tried on: every choice among its markers
\* and the phrase "invalid api key", in the order listed or in the reverse
\* order, as written or in capitals
M_invalid_api_key == <<"i","n","v","a","l","i","d"," ","a","p","i"," ","k","e","y">>
ErrorPieces ==
    << M_rate_limit, M_429, M_authentication, M_401, M_api_key, M_400,
       M_invalid, M_503, M_unavailable, M_timeout, M_context_length,
       M_token_limit, M_invalid_api_key >>
UpperChar(c) ==
    LET lower == <<"a","b","c","d","e","f","g","h","i","j","k","l","m","n",
                   "o","p","q","r","s","t","u","v","w","x","y","z">>
        upper == <<"A","B","C","D","E","F","G","H","I","J","K","L","M","N",
                   "O","P","Q","R","S","T","U","V","W","X","Y","Z">>
    IN IF \E i \in DOMAIN lower : lower[i] = c
       THEN upper[CHOOSE i \in DOMAIN lower : lower[i] = c]
       ELSE c
Upper(s) == [i \in DOMAIN s |-> UpperChar(s[i])]
ErrorPrefix == <<"E","r","r","o","r",":">>
RECURSIVE JoinPieces(_, _, _)
JoinPieces(pieces, i, backwards) ==
    IF i > Len(ErrorPieces) THEN <<>>
    ELSE LET k == IF backwards THEN Len(ErrorPieces) + 1 - i ELSE i
             rest == JoinPieces(pieces, i + 1, backwards)
         IN IF k \in pieces THEN <<" ">> \o ErrorPieces[k] \o <<";">> \o rest
            ELSE rest
ErrorText(pieces, backwards, shout) ==
    LET text == ErrorPrefix \o JoinPieces(pieces, 1, backwards)
    IN IF shout THEN Upper(text) ELSE text

\* failures of the completion service in the driver's runs
DriverErrTexts == {E_auth, E_unavail}

\* message.content of a completion: None, empty or a text
NoneStr == "<None>"
Texts == {"Hello"}

\* tool_call.function.arguments: JSON of well-formed arguments, JSON of
\* arguments the tool's validation rejects, and text that is not JSON
ArgsValid == "{valid}"
ArgsBadValues == "{bad_values}"
ArgsNotJson == "not json"

\* what the completion service asks for in one tool_calls response
BatchShapes ==
    { << [name |-> "calculate_roi", arguments |-> ArgsValid] >>,
      << [name |-> "no_such_tool", arguments |-> ArgsValid],
         [name |-> "calculate_pnl", arguments |-> ArgsNotJson],
         [name |-> "calculate_roi", arguments |-> ArgsBadValues],
         [name |-> "forecast_sales", arguments |-> ArgsValid],
         [name |-> "generate_balance_sheet", arguments |-> ArgsValid],
         [name |-> "analyze_break_even", arguments |-> ArgsBadValues] >> }

\* the ids the service gives the invocations of a batch: fresh ones
WithIds(shape, used) ==
    [k \in 1..Len(shape) |->
        [id |-> used + k, name |-> shape[k].name,
         arguments |-> shape[k].arguments]]

\* the ChatCompletion choices a service call can come back with
RawResponses(used) ==
    [content : Texts \cup {"", NoneStr}, finish_reason : {"stop", "length"},
     tool_calls : {<<>>}]
    \cup [content : {NoneStr, "Hello"}, finish_reason : {"tool_calls"},
          tool_calls : {<<>>}]
    \cup { [content |-> NoneStr, finish_reason |-> "tool_calls",
            tool_calls |-> WithIds(sh, used)] :
           sh \in {b \in BatchShapes : used + Len(b) <= MaxInvocations} }

\* an outcome of calling an operation: a value returned or a text raised
Returned(v) == [ok |-> TRUE, value |-> v]
Raised(t) == [ok |-> FALSE, value |-> t]

\* faulty variant of generate_response: the raised error does not carry the
\* text of the original one
generate_response_NoCause(raw) ==
    IF raw.ok
    THEN Returned([content |-> IF raw.value.content = NoneStr THEN ""
                               ELSE raw.value.content,
                   finish_reason |-> raw.value.finish_reason,
                   tool_calls |-> raw.value.tool_calls])
    ELSE Raised(ServiceErrorPrefix)

\* OpenAIService.generate_response over the transport's outcome
generate_response(raw) ==
    IF raw.ok
    THEN Returned([content |-> IF raw.value.content = NoneStr THEN ""
                               ELSE raw.value.content,
                   finish_reason |-> raw.value.finish_reason,
                   tool_calls |-> raw.value.tool_calls])
    ELSE Raised(ServiceErrorPrefix \o raw.value)

\* an operation given to with_retry, like flaky_function of the module's
\* self-test: it raises fails[n] on its n-th call and, once they are used
\* up, returns its value ("return") or goes on raising the last ("raise")
FlakyValue == "Success!"
RECURSIVE SeqsUpTo(_, _)
SeqsUpTo(S, n) ==
    IF n = 0 THEN {<<>>}
    ELSE LET shorter == SeqsUpTo(S, n - 1)
         IN shorter \cup {Append(q, x) : q \in shorter, x \in S}
Scripts ==
    {[fails |-> f, then |-> t] :
        f \in SeqsUpTo(ErrTexts, MaxScriptLen), t \in {"return", "raise"}}
    \ {[fails |-> <<>>, then |-> "raise"]}
NoScript == [fails |-> <<>>, then |-> "none"]
ScriptAt(sc, n) ==
    IF n <= Len(sc.fails) THEN Raised(sc.fails[n])
    ELSE IF sc.then = "return" THEN Returned(FlakyValue)
    ELSE Raised(sc.fails[Len(sc.fails)])

\* json.loads(tool_call.function.arguments) with the JSONDecodeError handler
json_loads(arguments) ==
    IF arguments = ArgsNotJson THEN Raised("JSONDecodeError")
    ELSE IF arguments = ArgsValid THEN Returned("valid")
    ELSE Returned("bad_values")

EmptyInput == "{}"

RegisteredTools ==
    {"calculate_roi", "forecast_sales", "calculate_pnl",
     "generate_balance_sheet", "generate_cash_flow_statement",
     "analyze_break_even"}

\* a tool handler called with **tool_input
ToolHandler(tool_name, tool_input) ==
    IF tool_input = "valid"
    THEN Returned([keys |-> {"result", "formatted_output", "success"},
                   error |-> <<>>, tool_name |-> ""])
    ELSE IF tool_input = "bad_values"
    THEN Returned([keys |-> {"error", "formatted_output"},
                   error |-> <<"validation failed">>, tool_name |-> ""])
    ELSE Raised(<<"missing required arguments">>)

\* faulty variant of execute_tool: the error result does not name the tool
execute_tool_NoToolName(tool_name, tool_input) ==
    LET r == IF tool_name \in RegisteredTools
             THEN ToolHandler(tool_name, tool_input)
             ELSE Raised(<<"Unknown tool: ", tool_name>>)
    IN IF r.ok THEN r.value
       ELSE [keys |-> {"error"}, error |-> r.value, tool_name |-> ""]

\* DexterAgent._execute_tool
execute_tool(tool_name, tool_input) ==
    LET r == IF tool_name \in RegisteredTools
             THEN ToolHandler(tool_name, tool_input)
             ELSE Raised(<<"Unknown tool: ", tool_name>>)
    IN IF r.ok THEN r.value
       ELSE [keys |-> {"error", "tool_name"}, error |-> r.value,
             tool_name |-> tool_name]

\* json.dumps(tool_result, ensure_ascii=False): the text of an object with
\* the result's keys, holding the values of "error" and "tool_name"
json_dumps(tool_result) ==
    [json |-> IF "tool_name" \in tool_result.keys THEN "{error, tool_name}"
              ELSE IF "error" \in tool_result.keys
              THEN "{error, formatted_output}"
              ELSE "{result, formatted_output, success}",
     error |-> tool_result.error,
     tool_name |-> tool_result.tool_name]

\* ChatMessage(role, content, name, tool_call_id, tool_calls)
NoId == 0
ChatMessage(role, content, name, tool_call_id, tool_calls) ==
    [role |-> role, content |-> content, name |-> name,
     tool_call_id |-> tool_call_id, tool_calls |-> tool_calls]

DEXTER_SYSTEM_PROMPT == "DEXTER_SYSTEM_PROMPT"
\* the names of the tool definitions register_dexter_tools() returns
register_dexter_tools ==
    {"calculate_roi", "forecast_sales", "calculate_pnl",
     "generate_balance_sheet", "generate_cash_flow_statement",
     "analyze_break_even"}
UserMessages == {"Berechne ROI"}

(***************************************************************************)
(* State.                                                                  *)
(***************************************************************************)
VARIABLES
    \* DexterAgent
    conversation_history,   \* self.conversation_history
    turn_count,             \* self.turn_count
    openai_service, model, tools, system_prompt,  \* its configuration
    \* the running chat() generator
    pc,                     \* where it stands ("idle": none is running)
    iteration,              \* its local iteration
    response,               \* its local response
    tool_idx,               \* position of the for loop over tool_calls
    tool_input,             \* its local tool_input
    tool_result,            \* its local tool_result
    trace,                  \* what this chat() did so far, in order
    \* the with_retry call in progress
    r_pc,                   \* "idle", "in_call", "sleeping", "returned", "raised"
    func, max_retries, base_delay, exponential_backoff,  \* its arguments
    attempt,                \* the for loop's attempt
    op_calls,               \* calls of func started
    last_error,             \* its local last_error
    outcomes,               \* what func did on each call so far
    sleeps,                 \* the delays slept so far
    r_result,               \* what with_retry returned or raised
    \* the environment
    sends,                  \* chat() calls started
    script,                 \* what the operation given to with_retry does
    call_failed,            \* a completion client call of the last chat()
                            \* has raised
    \* a call of classify_error
    error,                  \* its argument's text
    error_markers,          \* the pieces that text was put together from
    classified,             \* what it returned
    \* one RateLimiter and the coroutines that share it
    max_requests, time_window, requests,  \* its fields
    clock,                  \* time.time()
    acq_pc,                 \* per caller: "out" or "sleeping" in acquire()
    wake_at,                \* per caller: when its asyncio.sleep is due
    calls,                  \* acquire() calls made so far
    admitted,               \* the admissions so far, in order
    \* a call of OpenAIService.estimate_tokens
    text,                   \* its argument
    tokens,                 \* what it returned
    \* a call of OpenAIService.trim_conversation_history
    messages, max_tokens,   \* its arguments
    trimmed,                \* what it returned
    trim_returned,          \* it has returned
    \* a call of DexterAgent._execute_tool on its own
    call_name,              \* its tool_name
    call_keys,              \* the top-level keys of its tool_input
    call_result             \* what it returned

agentVars == <<conversation_history, turn_count>>
configVars == <<openai_service, model, tools, system_prompt>>
genVars == <<pc, iteration, response, tool_idx, tool_input, tool_result,
             trace>>
retryVars == <<r_pc, func, max_retries, base_delay, exponential_backoff,
               attempt, op_calls, last_error, outcomes, sleeps, r_result>>
envVars == <<sends, script>>
classifyVars == <<error, error_markers, classified>>
limiterVars == <<max_requests, time_window, requests, clock, acq_pc, wake_at,
                 calls, admitted>>
\* what the agent and with_retry never touch
serviceVars == <<text, tokens, messages, max_tokens, trimmed, trim_returned>>
dispatchVars == <<call_name, call_keys, call_result>>
libVars == <<classifyVars, limiterVars, serviceVars, dispatchVars>>
vars == <<agentVars, configVars, genVars, retryVars, envVars, call_failed,
          libVars>>

NoValue == "none"
NoResponse == [content |-> "", finish_reason |-> "none", tool_calls |-> <<>>]

NoToolResult == [keys |-> {}, error |-> <<>>, tool_name |-> ""]

\* one entry of the trace: "send" (user message, length of the transcript
\* before, 1 when the chat() before it on this transcript ended by a
\* classified error), "call" (of _call_openai, with the iteration), "response"
\* (finish_reason, content, the ids requested), "raised" (class, message),
\* "chunk" (yielded to the caller), "dispatch" and "append" (of the tool
\* invocation id)
Ev(ev, kind, arg, id) == [ev |-> ev, kind |-> kind, arg |-> arg, id |-> id]
\* a chunk the generator yields
Chunk(kind, arg, id) == Ev("chunk", kind, arg, id)

\* 1 when the chat() recorded in tr ended in the handler of OpenAIError
EndedByError(tr) ==
    IF \E i \in DOMAIN tr : tr[i].ev = "raised" THEN 1 ELSE 0

(***************************************************************************)
(* with_retry (error_handler.py).                                          *)
(***************************************************************************)
RetryIdle ==
    /\ r_pc = "idle" /\ func = NoValue /\ max_retries = 0 /\ base_delay = 0
    /\ exponential_backoff = FALSE /\ attempt = 0 /\ op_calls = 0
    /\ last_error = <<>>
    /\ outcomes = <<>> /\ sleeps = <<>> /\ r_result = Raised(<<>>)

\* with_retry has handed its result to its caller
RetryForget ==
    /\ r_pc' = "idle" /\ func' = NoValue /\ max_retries' = 0 /\ base_delay' = 0
    /\ exponential_backoff' = FALSE /\ attempt' = 0 /\ op_calls' = 0
    /\ last_error' = <<>>
    /\ outcomes' = <<>> /\ sleeps' = <<>> /\ r_result' = Raised(<<>>)

\* the head of  for attempt in range(max_retries + 1)  with a the next index
\* and n calls of func made so far, and the statements after the loop
ForAttempt(a, n, mr, le) ==
    IF a < mr + 1
    THEN /\ attempt' = a
         /\ op_calls' = n + 1
         /\ r_pc' = "in_call"
         /\ r_result' = Raised(<<>>)
    ELSE /\ attempt' = attempt
         /\ op_calls' = n
         /\ r_pc' = "raised"
         /\ r_result' = Raised(IF le # <<>> THEN classify_error(le)
                               ELSE OpenAIError("OpenAIError",
                                        UnexpectedRetryMessage, NoneInt,
                                        FALSE, NoneInt))

\* with_retry(func, max_retries=mr, base_delay=bd, exponential_backoff=eb)
\* up to the first await of func
WithRetryEnter(f, mr, bd, eb) ==
    /\ func' = f /\ max_retries' = mr /\ base_delay' = bd
    /\ exponential_backoff' = eb
    /\ last_error' = <<>> /\ outcomes' = <<>> /\ sleeps' = <<>>
    /\ ForAttempt(0, 0, mr, <<>>)

\* 2 ** n
RECURSIVE Pow2(_)
Pow2(n) == IF n <= 0 THEN 1 ELSE 2 * Pow2(n - 1)

\* faulty variant of RetryDelay: the backoff exponent counts attempts from 1
RetryDelayOneBased(classified_error, bd, eb, a) ==
    IF classified_error.retry_after # NoneInt THEN classified_error.retry_after
    ELSE IF eb THEN bd * Pow2(a + 1)
    ELSE bd

\* the delay before the next attempt
RetryDelay(classified_error, bd, eb, a) ==
    IF classified_error.retry_after # NoneInt THEN classified_error.retry_after
    ELSE IF eb THEN bd * Pow2(a)
    ELSE bd

\* faulty variants of RaiseNow: the retryable flag is not looked at; nothing
\* is ever retried; the last retry is not made
RaiseNowIgnoresRetryable(classified_error, a, mr) ==
    a >= mr

RaiseNowNeverRetries(classified_error, a, mr) ==
    TRUE

RaiseNowOneEarly(classified_error, a, mr) ==
    \/ ~classified_error.retryable
    \/ a >= mr - 1

\* must the failure of attempt a be raised (TRUE) or retried (FALSE)
RaiseNow(classified_error, a, mr) ==
    \/ ~classified_error.retryable
    \/ a >= mr

\* what calling func gives: _call_openai is generate_response over the
\* transport's outcome, any other operation gives its own outcome
FuncOutcome(f, raw) ==
    IF f = "_call_openai" THEN generate_response(raw) ELSE raw

\* the tool invocations requested so far in transcript h
RECURSIVE InvocationsIn(_)
InvocationsIn(h) ==
    IF h = <<>> THEN 0
    ELSE Len(h[Len(h)].tool_calls) + InvocationsIn(SubSeq(h, 1, Len(h) - 1))

\* what the world behind func can do on this call
RawOutcomes(f) ==
    IF f = "_call_openai"
    THEN {Returned(r) : r \in RawResponses(InvocationsIn(conversation_history))}
         \cup {Raised(t) : t \in DriverErrTexts}
    ELSE {ScriptAt(script, op_calls)}

\* the try statement of with_retry on outcome o of attempt a: return the
\* value, raise the classified error, or sleep before the next attempt
RetryStep(o, a, mr, bd, eb) ==
    IF o.ok
    THEN [pc |-> "returned", result |-> o, slept |-> <<>>]
    ELSE LET classified_error == classify_error(o.value) IN
         IF RaiseNow(classified_error, a, mr)
         THEN [pc |-> "raised", result |-> Raised(classified_error),
               slept |-> <<>>]
         ELSE [pc |-> "sleeping", result |-> Raised(<<>>),
               slept |-> <<RetryDelay(classified_error, bd, eb, a)>>]

(***************************************************************************)
(* DexterAgent.chat (main.py), one action per stretch of code between two  *)
(* points where the generator is suspended (a yield or an await).          *)
(***************************************************************************)
Gen(p, it, resp, ti, tin, tres, tr) ==
    /\ pc' = p /\ iteration' = it /\ response' = resp /\ tool_idx' = ti
    /\ tool_input' = tin /\ tool_result' = tres /\ trace' = tr

\* after the while loop: the notice, or the end of the generator
AfterLoop(it, resp, tr) ==
    IF it >= max_iterations
    THEN Gen("y_max", it, resp, 0, NoValue, NoToolResult,
             Append(tr, Chunk("max_iterations", "", NoId)))
    ELSE Gen("idle", 0, NoResponse, 0, NoValue, NoToolResult, tr)

\* faulty variant of LoopHead: the loop test lets one more iteration in
LoopHeadOffByOne(it, resp, tr) ==
    IF it <= max_iterations
    THEN /\ Gen("calling", it + 1, resp, 0, NoValue, NoToolResult,
                Append(tr, Ev("call", "_call_openai", it + 1, NoId)))
         /\ WithRetryEnter("_call_openai", call_openai_max_retries,
                           call_openai_base_delay, TRUE)
    ELSE /\ AfterLoop(it, resp, tr)
         /\ RetryForget

\* faulty variant of LoopHead: iteration is never incremented
LoopHeadNoCount(it, resp, tr) ==
    IF it < max_iterations
    THEN /\ Gen("calling", it, resp, 0, NoValue, NoToolResult,
                Append(tr, Ev("call", "_call_openai", it, NoId)))
         /\ WithRetryEnter("_call_openai", call_openai_max_retries,
                           call_openai_base_delay, TRUE)
    ELSE /\ AfterLoop(it, resp, tr)
         /\ RetryForget

\* the head of  while iteration < max_iterations  and, in the loop, the
\* call of self._call_openai(self.conversation_history) up to its await
LoopHead(it, resp, tr) ==
    IF it < max_iterations
    THEN /\ Gen("calling", it + 1, resp, 0, NoValue, NoToolResult,
                Append(tr, Ev("call", "_call_openai", it + 1, NoId)))
         /\ WithRetryEnter("_call_openai", call_openai_max_retries,
                           call_openai_base_delay, TRUE)
    ELSE /\ AfterLoop(it, resp, tr)
         /\ RetryForget

\* faulty variant of ForTool: the last invocation of a batch is left out
ForToolSkipsLast(i, it, resp, tr) ==
    IF i < Len(resp.tool_calls)
    THEN LET tool_call == resp.tool_calls[i]
             parsed == json_loads(tool_call.arguments)
         IN /\ Gen("y_tool", it, resp, i,
                   IF parsed.ok THEN parsed.value ELSE EmptyInput,
                   NoToolResult,
                   Append(tr, Chunk("tool_start", tool_call.name,
                                    tool_call.id)))
            /\ RetryForget
    ELSE LoopHead(it, resp, tr)

\* faulty variant of ForTool: arguments that do not decode end the turn with
\* an error notice
ForToolFailsOnBadJson(i, it, resp, tr) ==
    IF i <= Len(resp.tool_calls)
    THEN LET tool_call == resp.tool_calls[i]
             parsed == json_loads(tool_call.arguments)
         IN IF parsed.ok
            THEN /\ Gen("y_tool", it, resp, i, parsed.value, NoToolResult,
                        Append(tr, Chunk("tool_start", tool_call.name,
                                         tool_call.id)))
                 /\ RetryForget
            ELSE /\ Gen("y_error", it, resp, 0, NoValue, NoToolResult,
                        Append(tr, Chunk("error", <<"JSONDecodeError">>,
                                         NoId)))
                 /\ RetryForget
    ELSE LoopHead(it, resp, tr)

\* the head of  for tool_call in tool_calls  at position i: parse the
\* arguments and yield the notice, or leave the loop and continue
ForTool(i, it, resp, tr) ==
    IF i <= Len(resp.tool_calls)
    THEN LET tool_call == resp.tool_calls[i]
             parsed == json_loads(tool_call.arguments)
         IN /\ Gen("y_tool", it, resp, i,
                   IF parsed.ok THEN parsed.value ELSE EmptyInput,
                   NoToolResult,
                   Append(tr, Chunk("tool_start", tool_call.name,
                                    tool_call.id)))
            /\ RetryForget
    ELSE LoopHead(it, resp, tr)

\* the ids of the invocations of a response, in the order requested
Ids(tool_calls) == [k \in 1..Len(tool_calls) |-> tool_calls[k].id]

\* the tool_calls of an assistant message, in the service's format
tool_calls_dict(tool_calls) ==
    [k \in 1..Len(tool_calls) |->
        [id |-> tool_calls[k].id, type |-> "function",
         function |-> [name |-> tool_calls[k].name,
                       arguments |-> tool_calls[k].arguments]]]

\* faulty variant of RespondError: the user message of the failing turn is
\* taken back
RespondErrorRollsBack(e) ==
    /\ Gen("y_error", iteration, response, 0, NoValue, NoToolResult,
           Append(Append(trace, Ev("raised", e.cls, e.message, NoId)),
                  Chunk("error", e.message, NoId)))
    /\ RetryForget
    /\ conversation_history' =
           SubSeq(conversation_history, 1, Len(conversation_history) - 1)

\* except OpenAIError as e: the error notice, then break
RespondError(e) ==
    /\ Gen("y_error", iteration, response, 0, NoValue, NoToolResult,
           Append(Append(trace, Ev("raised", e.cls, e.message, NoId)),
                  Chunk("error", e.message, NoId)))
    /\ RetryForget
    /\ UNCHANGED conversation_history

\* faulty variant of RespondStop: the text is yielded and not appended
RespondStopNoAppend(resp, seen) ==
    IF resp.content # ""
    THEN /\ Gen("y_content", iteration, resp, 0, NoValue, NoToolResult,
                Append(seen, Chunk("content", resp.content, NoId)))
         /\ RetryForget
         /\ UNCHANGED conversation_history
    ELSE /\ AfterLoop(iteration, resp, seen)
         /\ RetryForget
         /\ UNCHANGED conversation_history

\* finish_reason == "stop": the text, if any, is appended and yielded; break
RespondStop(resp, seen) ==
    IF resp.content # ""
    THEN /\ conversation_history' =
                Append(conversation_history,
                       ChatMessage("assistant", resp.content, "", NoId, <<>>))
         /\ Gen("y_content", iteration, resp, 0, NoValue, NoToolResult,
                Append(seen, Chunk("content", resp.content, NoId)))
         /\ RetryForget
    ELSE /\ AfterLoop(iteration, resp, seen)
         /\ RetryForget
         /\ UNCHANGED conversation_history

\* faulty variant of RespondToolCalls: the assistant message is not appended
RespondToolCallsNoAssistant(resp, seen) ==
    /\ UNCHANGED conversation_history
    /\ ForTool(1, iteration, resp, seen)

\* finish_reason == "tool_calls" and response.tool_calls: the assistant
\* message with the tool_calls is appended and the for loop starts
RespondToolCalls(resp, seen) ==
    /\ conversation_history' =
           Append(conversation_history,
                  ChatMessage("assistant", "", "", NoId,
                              tool_calls_dict(resp.tool_calls)))
    /\ ForTool(1, iteration, resp, seen)

\* any other response: the text, if any, is yielded; break
RespondOther(resp, seen) ==
    IF resp.content # ""
    THEN /\ Gen("y_other", iteration, resp, 0, NoValue, NoToolResult,
                Append(seen, Chunk("content", resp.content, NoId)))
         /\ RetryForget
         /\ UNCHANGED conversation_history
    ELSE /\ AfterLoop(iteration, resp, seen)
         /\ RetryForget
         /\ UNCHANGED conversation_history

\* faulty variant of Respond: the tool_calls branch is taken without the
\* test of response.tool_calls
RespondAnyToolCalls(how, result) ==
    /\ IF how = "raised"
       THEN RespondError(result.value)
       ELSE LET resp == result.value
                seen == Append(trace, Ev("response", resp.finish_reason,
                                         resp.content, Ids(resp.tool_calls)))
            IN IF resp.finish_reason = "stop"
               THEN RespondStop(resp, seen)
               ELSE IF resp.finish_reason = "tool_calls"
               THEN RespondToolCalls(resp, seen)
               ELSE RespondOther(resp, seen)
    /\ call_failed' = (call_failed \/ how = "raised")
    /\ UNCHANGED <<turn_count, envVars>>

\* _call_openai came back (how: "returned" or "raised"): the branches on
\* finish_reason, and the handler of OpenAIError
Respond(how, result) ==
    /\ IF how = "raised"
       THEN RespondError(result.value)
       ELSE LET resp == result.value
                seen == Append(trace, Ev("response", resp.finish_reason,
                                         resp.content, Ids(resp.tool_calls)))
            IN IF resp.finish_reason = "stop"
               THEN RespondStop(resp, seen)
               ELSE IF resp.finish_reason = "tool_calls"
                       /\ resp.tool_calls # <<>>
               THEN RespondToolCalls(resp, seen)
               ELSE RespondOther(resp, seen)
    /\ call_failed' = (call_failed \/ how = "raised")
    /\ UNCHANGED <<turn_count, envVars>>

\* await func(...) comes back.  with_retry returns its value, or classifies
\* the exception and raises or goes to sleep; when with_retry ends inside
\* chat(), chat() runs on to its next yield or await without a suspension
OpCompletes ==
    /\ r_pc = "in_call"
    /\ \E raw \in RawOutcomes(func) :
        LET o == FuncOutcome(func, raw)
            st == RetryStep(o, attempt, max_retries, base_delay,
                            exponential_backoff)
        IN IF func = "_call_openai" /\ st.pc # "sleeping"
           THEN Respond(st.pc, st.result)
           ELSE /\ outcomes' = Append(outcomes, o)
                /\ last_error' = IF o.ok THEN last_error ELSE o.value
                /\ r_pc' = st.pc
                /\ r_result' = st.result
                /\ sleeps' = sleeps \o st.slept
                /\ UNCHANGED <<func, max_retries, base_delay,
                               exponential_backoff, attempt, op_calls>>
                /\ call_failed' =
                       (call_failed \/ (func = "_call_openai" /\ ~o.ok))
                /\ UNCHANGED <<agentVars, genVars, envVars>>
    /\ UNCHANGED <<configVars, libVars>>

\* asyncio.sleep(delay) is over: the next attempt
SleepEnds ==
    /\ r_pc = "sleeping"
    /\ ForAttempt(attempt + 1, op_calls, max_retries, last_error)
    /\ UNCHANGED <<func, max_retries, base_delay, exponential_backoff,
                   last_error, outcomes, sleeps>>
    /\ UNCHANGED <<agentVars, genVars, envVars, call_failed>>
    /\ UNCHANGED <<configVars, libVars>>

\* a caller other than the agent calls with_retry on an operation of its own
RetryStart ==
    /\ pc = "idle" /\ r_pc = "idle"
    /\ script = NoScript
    /\ \E mr \in 0..MaxRetriesArg, bd \in 1..MaxBaseDelay, eb \in BOOLEAN :
        WithRetryEnter("flaky_function", mr, bd, eb)
    /\ script' \in Scripts
    /\ UNCHANGED <<agentVars, genVars, sends, call_failed>>
    /\ UNCHANGED <<configVars, libVars>>

\* faulty variant of Send: turn_count is not incremented
SendKeepsTurnCount ==
    /\ pc = "idle" /\ r_pc = "idle"
    /\ sends < MaxSends
    /\ \E user_message \in UserMessages :
        LET seeded == IF conversation_history = <<>>
                      THEN <<ChatMessage("system", system_prompt, "", NoId,
                                         <<>>)>>
                      ELSE conversation_history
        IN /\ turn_count' = turn_count
           /\ conversation_history' =
                  Append(seeded, ChatMessage("user", user_message, "", NoId,
                                             <<>>))
           /\ LoopHead(0, NoResponse,
                       <<Ev("send", user_message,
                            Len(conversation_history), EndedByError(trace))>>)
    /\ sends' = sends + 1
    /\ call_failed' = FALSE
    /\ UNCHANGED script
    /\ UNCHANGED <<configVars, libVars>>

\* faulty variant of Send: the system prompt is added on every call
SendAlwaysSeeds ==
    /\ pc = "idle" /\ r_pc = "idle"
    /\ sends < MaxSends
    /\ \E user_message \in UserMessages :
        LET seeded == Append(conversation_history,
                             ChatMessage("system", system_prompt, "", NoId,
                                         <<>>))
        IN /\ turn_count' = turn_count + 1
           /\ conversation_history' =
                  Append(seeded, ChatMessage("user", user_message, "", NoId,
                                             <<>>))
           /\ LoopHead(0, NoResponse,
                       <<Ev("send", user_message,
                            Len(conversation_history), EndedByError(trace))>>)
    /\ sends' = sends + 1
    /\ call_failed' = FALSE
    /\ UNCHANGED script
    /\ UNCHANGED <<configVars, libVars>>

\* chat(user_message) is called and runs to the await of the first
\* completion call
Send ==
    /\ pc = "idle" /\ r_pc = "idle"
    /\ sends < MaxSends
    /\ \E user_message \in UserMessages :
        LET seeded == IF conversation_history = <<>>
                      THEN <<ChatMessage("system", system_prompt, "", NoId,
                                         <<>>)>>
                      ELSE conversation_history
        IN /\ turn_count' = turn_count + 1
           /\ conversation_history' =
                  Append(seeded, ChatMessage("user", user_message, "", NoId,
                                             <<>>))
           /\ LoopHead(0, NoResponse,
                       <<Ev("send", user_message,
                            Len(conversation_history), EndedByError(trace))>>)
    /\ sends' = sends + 1
    /\ call_failed' = FALSE
    /\ UNCHANGED script
    /\ UNCHANGED <<configVars, libVars>>

\* resumed after the tool notice: await self._execute_tool(...)
ResumeTool ==
    /\ pc = "y_tool"
    /\ Gen("executing", iteration, response, tool_idx, tool_input,
           tool_result,
           Append(trace, Ev("dispatch", response.tool_calls[tool_idx].name,
                            tool_input, response.tool_calls[tool_idx].id)))
    /\ UNCHANGED <<agentVars, retryVars, envVars, call_failed>>
    /\ UNCHANGED <<configVars, libVars>>

\* faulty variant of AppendToolMessage: the tool message is built without its
\* tool_call_id
AppendToolMessageNoId(res, tr) ==
    LET tool_call == response.tool_calls[tool_idx] IN
    /\ conversation_history' =
           Append(conversation_history,
                  ChatMessage("tool", json_dumps(res), tool_call.name,
                              NoId, <<>>))
    /\ ForTool(tool_idx + 1, iteration, response,
               Append(tr, Ev("append", tool_call.name, json_dumps(res),
                             tool_call.id)))

\* the tool message of the current invocation is appended and the for loop
\* goes on
AppendToolMessage(res, tr) ==
    LET tool_call == response.tool_calls[tool_idx] IN
    /\ conversation_history' =
           Append(conversation_history,
                  ChatMessage("tool", json_dumps(res), tool_call.name,
                              tool_call.id, <<>>))
    /\ ForTool(tool_idx + 1, iteration, response,
               Append(tr, Ev("append", tool_call.name, json_dumps(res),
                             tool_call.id)))

\* _execute_tool came back
ToolReturns ==
    /\ pc = "executing"
    /\ LET res == execute_tool(response.tool_calls[tool_idx].name, tool_input)
       IN IF "formatted_output" \in res.keys
          THEN /\ Gen("y_formatted", iteration, response, tool_idx,
                      tool_input, res,
                      Append(trace,
                             Chunk("formatted_output",
                                   response.tool_calls[tool_idx].name,
                                   response.tool_calls[tool_idx].id)))
               /\ UNCHANGED <<conversation_history, retryVars>>
          ELSE AppendToolMessage(res, trace)
    /\ UNCHANGED <<turn_count, envVars, call_failed>>
    /\ UNCHANGED <<configVars, libVars>>

\* resumed after the tool's formatted output
ResumeFormatted ==
    /\ pc = "y_formatted"
    /\ AppendToolMessage(tool_result, trace)
    /\ UNCHANGED <<turn_count, envVars, call_failed>>
    /\ UNCHANGED <<configVars, libVars>>

\* resumed after the final text: break
ResumeContent ==
    /\ pc = "y_content"
    /\ AfterLoop(iteration, response, trace)
    /\ UNCHANGED <<agentVars, retryVars, envVars, call_failed>>
    /\ UNCHANGED <<configVars, libVars>>

\* resumed after the text of an unexpected finish_reason: break
ResumeOther ==
    /\ pc = "y_other"
    /\ AfterLoop(iteration, response, trace)
    /\ UNCHANGED <<agentVars, retryVars, envVars, call_failed>>
    /\ UNCHANGED <<configVars, libVars>>

\* faulty variant of ResumeError: continue instead of break
ResumeErrorContinues ==
    /\ pc = "y_error"
    /\ LoopHead(iteration, response, trace)
    /\ UNCHANGED <<agentVars, envVars, call_failed>>
    /\ UNCHANGED <<configVars, libVars>>

\* resumed after the error notice: break
ResumeError ==
    /\ pc = "y_error"
    /\ AfterLoop(iteration, response, trace)
    /\ UNCHANGED <<agentVars, retryVars, envVars, call_failed>>
    /\ UNCHANGED <<configVars, libVars>>

\* resumed after the notice of the iteration cap: the generator ends
ResumeMax ==
    /\ pc = "y_max"
    /\ Gen("idle", 0, NoResponse, 0, NoValue, NoToolResult, trace)
    /\ UNCHANGED <<agentVars, retryVars, envVars, call_failed>>
    /\ UNCHANGED <<configVars, libVars>>

\* faulty variant of Reset: the turn counter is kept
ResetKeepsTurnCount ==
    /\ pc = "idle" /\ r_pc = "idle"
    /\ conversation_history' = <<>>
    /\ trace' = <<>>
    /\ call_failed' = FALSE
    /\ UNCHANGED <<turn_count, pc, iteration, response, tool_idx, tool_input,
                   tool_result, retryVars, envVars>>
    /\ UNCHANGED <<configVars, libVars>>

\* DexterAgent.reset_conversation, between two chats; the record of the last
\* chat goes with the transcript it describes
Reset ==
    /\ pc = "idle" /\ r_pc = "idle"
    /\ conversation_history' = <<>>
    /\ turn_count' = 0
    /\ trace' = <<>>
    /\ call_failed' = FALSE
    /\ UNCHANGED <<pc, iteration, response, tool_idx, tool_input,
                   tool_result, retryVars, envVars>>
    /\ UNCHANGED <<configVars, libVars>>

\* the positions where chat() is suspended at a yield
YieldPoints ==
    {"y_tool", "y_formatted", "y_content", "y_other", "y_error", "y_max"}

\* the caller stops consuming chat() at a yield and never resumes it (the
\* main loop's KeyboardInterrupt handler goes on to the next input): the
\* generator is dropped where it stands, the agent keeps what it holds
Abandon ==
    /\ pc \in YieldPoints
    /\ Gen("idle", 0, NoResponse, 0, NoValue, NoToolResult, trace)
    /\ UNCHANGED <<agentVars, retryVars, envVars, call_failed>>
    /\ UNCHANGED <<configVars, libVars>>

\* DexterAgent.reset_conversation called by the consumer of a chat() between
\* the first two chunks of a chat(); the generator stays suspended where it
\* is
ResetSuspended ==
    /\ pc \in YieldPoints
    /\ Cardinality({q \in DOMAIN trace : trace[q].ev = "chunk"}) = 1
    /\ turn_count > 0
    /\ conversation_history' = <<>>
    /\ turn_count' = 0
    /\ UNCHANGED <<genVars, retryVars, envVars, call_failed>>
    /\ UNCHANGED <<configVars, libVars>>

(***************************************************************************)
(* classify_error on its own (error_handler.py).                           *)
(***************************************************************************)
NoClassified == OpenAIError("none", <<>>, NoneInt, FALSE, NoneInt)

\* no call of classify_error
ClassifyIdle ==
    /\ error = <<>> /\ error_markers = {} /\ classified = NoClassified

\* classify_error(error) is called and returns
Classify ==
    /\ classified = NoClassified
    /\ classified' = classify_error(error)
    /\ UNCHANGED <<error, error_markers>>
    /\ UNCHANGED <<agentVars, configVars, genVars, retryVars, envVars,
                   call_failed, limiterVars, serviceVars, dispatchVars>>

(***************************************************************************)
(* RateLimiter (error_handler.py).                                         *)
(***************************************************************************)
\* no limiter in use
LimiterIdle ==
    /\ max_requests = 0 /\ time_window = 0 /\ requests = <<>> /\ clock = 0
    /\ acq_pc = <<>> /\ wake_at = <<>> /\ calls = 0 /\ admitted = <<>>

Callers == DOMAIN acq_pc

\* RateLimiter.__init__ and the coroutines about to use it
LimiterStart ==
    /\ max_requests \in 1..MaxLimit
    /\ time_window \in 1..MaxWindow
    /\ requests = <<>>
    /\ clock = 0
    /\ \E n \in 1..MaxCallers :
          /\ acq_pc = [c \in 1..n |-> "out"]
          /\ wake_at = [c \in 1..n |-> 0]
    /\ calls = 0
    /\ admitted = <<>>

\* faulty variant of Pruned: once the oldest request has left the window the
\* whole list is dropped (a fixed window)
PrunedFixedWindow(now) ==
    LET cutoff == now - time_window
    IN IF requests # <<>> /\ ~(requests[1] > cutoff) THEN <<>> ELSE requests

\* [ts for ts in self.requests if ts > cutoff]
Pruned(now) ==
    LET cutoff == now - time_window
        InWindow(ts) == ts > cutoff
    IN SelectSeq(requests, InWindow)

\* faulty variant of Admit: the timestamp is put in front of the list
AdmitInFront(c, now, kept, slept) ==
    /\ requests' = <<now>> \o kept
    /\ admitted' = Append(admitted, [at |-> now, slept |-> slept])
    /\ acq_pc' = [acq_pc EXCEPT ![c] = "out"]
    /\ UNCHANGED wake_at

\* self.requests.append(now); acquire() returns to caller c
Admit(c, now, kept, slept) ==
    /\ requests' = Append(kept, now)
    /\ admitted' = Append(admitted, [at |-> now, slept |-> slept])
    /\ acq_pc' = [acq_pc EXCEPT ![c] = "out"]
    /\ UNCHANGED wake_at

\* faulty variant of Evaluate: a caller that has slept is admitted without
\* looking at the list again
EvaluateOnceOnly(c, slept) ==
    LET now == clock
        kept == Pruned(now)
    IN IF Len(kept) >= max_requests /\ ~slept
       THEN LET oldest == kept[1]
                wait_time == time_window - (now - oldest)
            IN IF wait_time > 0
               THEN /\ requests' = kept
                    /\ acq_pc' = [acq_pc EXCEPT ![c] = "sleeping"]
                    /\ wake_at' = [wake_at EXCEPT ![c] = now + wait_time]
                    /\ UNCHANGED admitted
               ELSE Admit(c, now, kept, slept)
       ELSE Admit(c, now, kept, slept)

\* the body of acquire() from its first line to its first await or its end,
\* run by caller c; slept: this is the recursive call after a sleep
Evaluate(c, slept) ==
    LET now == clock
        kept == Pruned(now)
    IN IF Len(kept) >= max_requests
       THEN LET oldest == kept[1]
                wait_time == time_window - (now - oldest)
            IN IF wait_time > 0
               THEN /\ requests' = kept
                    /\ acq_pc' = [acq_pc EXCEPT ![c] = "sleeping"]
                    /\ wake_at' = [wake_at EXCEPT ![c] = now + wait_time]
                    /\ UNCHANGED admitted
               ELSE Admit(c, now, kept, slept)
       ELSE Admit(c, now, kept, slept)

LimiterFrame ==
    UNCHANGED <<agentVars, configVars, genVars, retryVars, envVars,
                call_failed, classifyVars, serviceVars, dispatchVars>>

\* caller c calls limiter.acquire()
Acquire ==
    /\ calls < MaxAcquires
    /\ \E c \in Callers :
          /\ acq_pc[c] = "out"
          /\ Evaluate(c, FALSE)
    /\ calls' = calls + 1
    /\ UNCHANGED <<max_requests, time_window, clock>>
    /\ LimiterFrame

\* faulty variant of WakeUp: after the sleep acquire() returns without the
\* recursive call
WakeUpReturns ==
    /\ \E c \in Callers :
          /\ acq_pc[c] = "sleeping"
          /\ clock >= wake_at[c]
          /\ acq_pc' = [acq_pc EXCEPT ![c] = "out"]
    /\ UNCHANGED <<max_requests, time_window, clock, calls, requests,
                   wake_at, admitted>>
    /\ LimiterFrame

\* asyncio.sleep(wait_time) of caller c is over:  return await self.acquire()
WakeUp ==
    /\ \E c \in Callers :
          /\ acq_pc[c] = "sleeping"
          /\ clock >= wake_at[c]
          /\ Evaluate(c, TRUE)
    /\ UNCHANGED <<max_requests, time_window, clock, calls>>
    /\ LimiterFrame

\* time.time() moves on
Tick ==
    /\ clock < MaxTime
    /\ clock' = clock + 1
    /\ UNCHANGED <<max_requests, time_window, requests, acq_pc, wake_at,
                   calls, admitted>>
    /\ LimiterFrame

\* time.time() moves on while an asyncio.sleep(wait_time) is not yet due
SleepTick ==
    /\ clock >= MaxTime
    /\ \E c \in Callers : acq_pc[c] = "sleeping" /\ wake_at[c] > clock
    /\ clock' = clock + 1
    /\ UNCHANGED <<max_requests, time_window, requests, acq_pc, wake_at,
                   calls, admitted>>
    /\ LimiterFrame

(***************************************************************************)
(* OpenAIService.estimate_tokens and trim_conversation_history             *)
(* (openai_service.py).                                                    *)
(***************************************************************************)
\* no call of either
ServiceIdle ==
    /\ text = <<>> /\ tokens = NoneInt
    /\ messages = <<>> /\ max_tokens = 0 /\ trimmed = <<>>
    /\ trim_returned = FALSE

\* a text of n characters
TextOfLen(n) == [i \in 1..n |-> "x"]

\* max(1, len(text) // 4)
estimate_tokens(t) ==
    IF Len(t) \div 4 > 1 THEN Len(t) \div 4 ELSE 1

ServiceFrame ==
    UNCHANGED <<agentVars, configVars, genVars, retryVars, envVars,
                call_failed, classifyVars, limiterVars, dispatchVars>>

\* estimate_tokens(text) is called and returns
EstimateTokens ==
    /\ tokens = NoneInt
    /\ tokens' = estimate_tokens(text)
    /\ UNCHANGED <<text, messages, max_tokens, trimmed, trim_returned>>
    /\ ServiceFrame

\* the messages a transcript given to trim_conversation_history is made of:
\* system, user and assistant messages of several lengths, an assistant
\* message asking for invocation 1 and the tool message answering it
TrimMessages ==
    {ChatMessage("system", TextOfLen(n), "", NoId, <<>>) : n \in {5, 8}}
    \cup {ChatMessage("user", TextOfLen(n), "", NoId, <<>>) : n \in {0, 5, 8}}
    \cup {ChatMessage("assistant", TextOfLen(5), "", NoId, <<>>)}
    \cup {ChatMessage("assistant", <<>>, "", NoId,
                      tool_calls_dict(<<[id |-> 1, name |-> "calculate_roi",
                                         arguments |-> ArgsValid]>>))}
    \cup {ChatMessage("tool", TextOfLen(8), "calculate_roi", 1, <<>>)}

\* sum(self.estimate_tokens(m.content) for m in ms)
RECURSIVE SumTokens(_)
SumTokens(ms) ==
    IF ms = <<>> THEN 0
    ELSE estimate_tokens(ms[1].content) + SumTokens(Tail(ms))

\* faulty variant of WalkBack: the kept messages are appended, so they come
\* out newest first
RECURSIVE WalkBackAppends(_, _, _, _)
WalkBackAppends(other_messages, i, current_tokens, remaining_tokens) ==
    IF i = 0 THEN <<>>
    ELSE LET message == other_messages[i]
             msg_tokens == estimate_tokens(message.content)
         IN IF current_tokens + msg_tokens > remaining_tokens THEN <<>>
            ELSE <<message>>
                 \o WalkBackAppends(other_messages, i - 1,
                                    current_tokens + msg_tokens,
                                    remaining_tokens)

\* for message in reversed(other_messages), from position i down: what
\* trimmed_other holds at the end of the loop
RECURSIVE WalkBack(_, _, _, _)
WalkBack(other_messages, i, current_tokens, remaining_tokens) ==
    IF i = 0 THEN <<>>
    ELSE LET message == other_messages[i]
             msg_tokens == estimate_tokens(message.content)
         IN IF current_tokens + msg_tokens > remaining_tokens THEN <<>>
            ELSE Append(WalkBack(other_messages, i - 1,
                                 current_tokens + msg_tokens,
                                 remaining_tokens),
                        message)

\* faulty variant of trim_conversation_history: the system messages are not
\* counted against the budget
trim_conversation_history_FreeSystem(ms, mt) ==
    LET system_messages == SelectSeq(ms, LAMBDA m : m.role = "system")
        other_messages == SelectSeq(ms, LAMBDA m : m.role # "system")
    IN system_messages \o WalkBack(other_messages, Len(other_messages), 0, mt)

\* OpenAIService.trim_conversation_history(messages, max_tokens)
trim_conversation_history(ms, mt) ==
    LET system_messages == SelectSeq(ms, LAMBDA m : m.role = "system")
        other_messages == SelectSeq(ms, LAMBDA m : m.role # "system")
        system_tokens == SumTokens(system_messages)
        remaining_tokens == mt - system_tokens
    IN system_messages
       \o WalkBack(other_messages, Len(other_messages), 0, remaining_tokens)

\* faulty variant of Trim: the list that was passed is trimmed in place
TrimInPlace ==
    /\ ~trim_returned
    /\ trimmed' = trim_conversation_history(messages, max_tokens)
    /\ messages' = trimmed'
    /\ trim_returned' = TRUE
    /\ UNCHANGED <<text, tokens, max_tokens>>
    /\ ServiceFrame

\* trim_conversation_history(messages, max_tokens) is called and returns
Trim ==
    /\ ~trim_returned
    /\ trimmed' = trim_conversation_history(messages, max_tokens)
    /\ trim_returned' = TRUE
    /\ UNCHANGED <<text, tokens, messages, max_tokens>>
    /\ ServiceFrame

(***************************************************************************)
(* The tool catalogue (tool_converter.py), the handlers' signatures        *)
(* (tools) and the call of a handler with **tool_input in _execute_tool.    *)
(***************************************************************************)
\* "parameters"."properties" of the tool's definition: the top-level names
SchemaProperties(tool_name) ==
    CASE tool_name = "calculate_roi" ->
            {"investment_cost", "revenue_generated", "timeframe_months",
             "recurring_costs"}
      [] tool_name = "forecast_sales" ->
            {"historical_sales", "forecast_months", "include_seasonality"}
      [] tool_name = "calculate_pnl" ->
            {"revenue", "cost_of_goods_sold", "operating_expenses", "period",
             "tax_rate"}
      [] tool_name = "generate_balance_sheet" ->
            {"assets", "liabilities", "equity", "date"}
      [] tool_name = "generate_cash_flow_statement" ->
            {"operating_activities", "investing_activities",
             "financing_activities", "beginning_cash", "period"}
      [] tool_name = "analyze_break_even" ->
            {"fixed_costs", "variable_cost_per_unit", "price_per_unit",
             "expected_units", "run_scenarios"}
      [] OTHER -> {}

\* "parameters"."required" of the tool's definition
SchemaRequired(tool_name) ==
    CASE tool_name = "calculate_roi" ->
            {"investment_cost", "revenue_generated", "timeframe_months"}
      [] tool_name = "forecast_sales" ->
            {"historical_sales", "forecast_months"}
      [] tool_name = "calculate_pnl" ->
            {"revenue", "cost_of_goods_sold", "operating_expenses", "period"}
      [] tool_name = "generate_balance_sheet" ->
            {"assets", "liabilities", "equity", "date"}
      [] tool_name = "generate_cash_flow_statement" ->
            {"operating_activities", "investing_activities",
             "financing_activities", "beginning_cash", "period"}
      [] tool_name = "analyze_break_even" ->
            {"fixed_costs", "variable_cost_per_unit", "price_per_unit",
             "expected_units"}
      [] OTHER -> {}

\* the parameters of the handler's signature that have no default
HandlerRequired(tool_name) ==
    CASE tool_name = "calculate_roi" ->
            {"investment_cost", "revenue_generated", "timeframe_months"}
      [] tool_name = "forecast_sales" ->
            {"historical_sales", "forecast_months"}
      [] tool_name = "calculate_pnl" ->
            {"revenue", "cost_of_goods_sold", "operating_expenses", "period"}
      [] tool_name = "generate_balance_sheet" ->
            {"assets", "liabilities", "equity", "date"}
      [] tool_name = "generate_cash_flow_statement" ->
            {"operating_activities", "investing_activities",
             "financing_activities", "beginning_cash", "period"}
      [] tool_name = "analyze_break_even" ->
            {"fixed_costs", "variable_cost_per_unit",
             "selling_price_per_unit"}
      [] OTHER -> {}

\* the parameters of the handler's signature that have a default
HandlerOptional(tool_name) ==
    CASE tool_name = "calculate_roi" -> {"recurring_costs"}
      [] tool_name = "forecast_sales" -> {"include_seasonality"}
      [] tool_name = "calculate_pnl" -> {"tax_rate"}
      [] tool_name = "generate_balance_sheet" -> {}
      [] tool_name = "generate_cash_flow_statement" -> {"revenue"}
      [] tool_name = "analyze_break_even" ->
            {"current_sales_units", "target_profit"}
      [] OTHER -> {}

\* a key no schema and no handler knows
StrangeKey == "note"

\* a handler called with **tool_input: Python binds the keys to the
\* parameters, and
\* raises TypeError for a key that is no parameter and for a parameter
\* without default that is no key
BindArguments(tool_name, keys) ==
    IF \E k \in keys :
          k \notin HandlerRequired(tool_name) \cup HandlerOptional(tool_name)
    THEN Raised(<<"got an unexpected keyword argument">>)
    ELSE IF \E q \in HandlerRequired(tool_name) : q \notin keys
    THEN Raised(<<"missing required positional arguments">>)
    ELSE Returned("valid")

\* the tool_input of the driver's model that stands for a dict with these
\* keys: one the handler runs on, or one the call of the handler fails on
InputWithKeys(tool_name, keys) ==
    IF BindArguments(tool_name, keys).ok THEN "valid" ELSE EmptyInput

\* no call of _execute_tool on its own
DispatchIdle ==
    /\ call_name = "" /\ call_keys = {} /\ call_result = NoToolResult

\* _execute_tool(call_name, tool_input) is called and returns
ExecuteTool ==
    /\ call_result = NoToolResult
    /\ call_result' =
          execute_tool(call_name, InputWithKeys(call_name, call_keys))
    /\ UNCHANGED <<call_name, call_keys>>
    /\ UNCHANGED <<agentVars, configVars, genVars, retryVars, envVars,
                   call_failed, classifyVars, limiterVars, serviceVars>>

(***************************************************************************)
(* Specifications.                                                         *)
(***************************************************************************)
\* DexterAgent.__init__: the configuration
ConfigInit ==
    /\ openai_service = "OpenAIService(config.api_key)"
    /\ model = "config.model.model_name"
    /\ tools = register_dexter_tools
    /\ system_prompt = DEXTER_SYSTEM_PROMPT

DriverInit ==
    /\ conversation_history = <<>>
    /\ turn_count = 0
    /\ ConfigInit
    /\ pc = "idle" /\ iteration = 0 /\ response = NoResponse /\ tool_idx = 0
    /\ tool_input = NoValue /\ tool_result = NoToolResult /\ trace = <<>>
    /\ RetryIdle
    /\ sends = 0 /\ script = NoScript /\ call_failed = FALSE

Init ==
    DriverInit /\ ClassifyIdle /\ LimiterIdle /\ ServiceIdle /\ DispatchIdle

\* the agent with a caller that consumes every chat() to its end
Next ==
    \/ Send
    \/ OpCompletes
    \/ SleepEnds
    \/ ResumeTool
    \/ ToolReturns
    \/ ResumeFormatted
    \/ ResumeContent
    \/ ResumeOther
    \/ ResumeError
    \/ ResumeMax
    \/ Reset

Spec == Init /\ [][Next]_vars

\* ... where every awaited operation comes back (a service attempt, a tool
\* handler and a sleep return or raise) and the caller keeps consuming the
\* generator it started
Continue ==
    \/ OpCompletes
    \/ SleepEnds
    \/ ToolReturns
    \/ ResumeTool
    \/ ResumeFormatted
    \/ ResumeContent
    \/ ResumeOther
    \/ ResumeError
    \/ ResumeMax

\* weak fairness of Continue.  A running chat() always has its next step
\* enabled and no other action is (Send, Reset and RetryStart need
\* pc = "idle"), so ENABLED <<Continue>>_vars is  pc # "idle"  in every
\* state of Spec, and WF_vars(Continue) is written with that predicate
Fairness == []<>(pc = "idle") \/ []<><<Continue>>_vars

SpecFair == Spec /\ Fairness

\* the agent with a caller that may give up a chat() at any of its yields
AbandonNext ==
    \/ Next
    \/ Abandon

SpecAbandon == Init /\ [][AbandonNext]_vars

\* the agent with a caller that may reset the conversation between two
\* chunks of a chat() it goes on consuming
SharedNext ==
    \/ Next
    \/ ResetSuspended

SpecShared == Init /\ [][SharedNext]_vars

\* with_retry on its own, under every choice of its arguments
RetryNext ==
    \/ RetryStart
    \/ OpCompletes
    \/ SleepEnds

SpecRetry == Init /\ [][RetryNext]_vars

\* classify_error on every error text
ClassifyInit ==
    /\ DriverInit /\ LimiterIdle /\ ServiceIdle /\ DispatchIdle
    /\ classified = NoClassified
    /\ \E pieces \in SUBSET (1..Len(ErrorPieces)),
          backwards \in BOOLEAN, shout \in BOOLEAN :
          /\ error_markers = pieces
          /\ error = ErrorText(pieces, backwards, shout)

SpecClassify == ClassifyInit /\ [][Classify]_vars

\* one RateLimiter shared by coroutines that call acquire() again and again
LimiterInit ==
    DriverInit /\ ClassifyIdle /\ LimiterStart /\ ServiceIdle /\ DispatchIdle

LimiterNext ==
    \/ Acquire
    \/ WakeUp
    \/ Tick

SpecLimiter == LimiterInit /\ [][LimiterNext]_vars

\* the same with time that goes on for as long as a caller sleeps, and an
\* event loop that resumes a coroutine whose sleep is due
TimePasses == Tick \/ SleepTick
LimiterFairNext ==
    \/ Acquire
    \/ WakeUp
    \/ Tick
    \/ SleepTick
LimiterFairness == WF_vars(TimePasses) /\ WF_vars(WakeUp)
SpecLimiterFair ==
    LimiterInit /\ [][LimiterFairNext]_vars /\ LimiterFairness

\* estimate_tokens on texts of every length
EstimateInit ==
    /\ DriverInit /\ ClassifyIdle /\ LimiterIdle /\ DispatchIdle
    /\ text \in {TextOfLen(n) : n \in 0..MaxTextLen}
    /\ tokens = NoneInt
    /\ messages = <<>> /\ max_tokens = 0 /\ trimmed = <<>>
    /\ trim_returned = FALSE

SpecEstimate == EstimateInit /\ [][EstimateTokens]_vars

\* trim_conversation_history on every transcript and budget
TrimInit ==
    /\ DriverInit /\ ClassifyIdle /\ LimiterIdle /\ DispatchIdle
    /\ text = <<>> /\ tokens = NoneInt
    /\ messages \in SeqsUpTo(TrimMessages, MaxMessages)
    /\ max_tokens \in 0..MaxTokens
    /\ trimmed = <<>>
    /\ trim_returned = FALSE

SpecTrim == TrimInit /\ [][Trim]_vars

\* _execute_tool on every tool of the catalogue and every set of keys made
\* of its schema's names, its handler's parameters and a strange key
DispatchInit ==
    /\ DriverInit /\ ClassifyIdle /\ LimiterIdle /\ ServiceIdle
    /\ call_name \in tools
    /\ call_keys \in SUBSET (SchemaProperties(call_name)
                              \cup HandlerRequired(call_name)
                              \cup HandlerOptional(call_name)
                              \cup {StrangeKey})
    /\ call_result = NoToolResult

SpecDispatch == DispatchInit /\ [][ExecuteTool]_vars

(***************************************************************************)
(* Reading the trace of the last chat().                                   *)
(***************************************************************************)
\* the answers to its completion calls: responses and raised errors
Answers == SelectSeq(trace, LAMBDA e : e.ev \in {"response", "raised"})
\* the chunks the caller received
Chunks == SelectSeq(trace, LAMBDA e : e.ev = "chunk")
\* the number of completion client calls it made
NCalls == Cardinality({i \in DOMAIN trace : trace[i].ev = "call"})
\* a response that asks for at least one tool invocation
IsToolBatch(e) == e.ev = "response" /\ e.kind = "tool_calls" /\ e.id # <<>>
\* the notice of the iteration cap
IsMaxNotice(e) == e.ev = "chunk" /\ e.kind = "max_iterations"
\* a chat() has run to its end
TurnDone == pc = "idle" /\ trace # <<>>
\* ... and it started on an empty transcript
FreshTurnDone == TurnDone /\ trace[1].arg = 0
SystemMessage == ChatMessage("system", DEXTER_SYSTEM_PROMPT, "", NoId, <<>>)

\* the chat() in progress or just ended has had every completion client
\* call so far answered by finish_reason = tool_calls with at least one
\* invocation (no call failed, none was answered otherwise)
AlwaysToolCalls ==
    /\ trace # <<>>
    /\ ~call_failed
    /\ \A i \in DOMAIN Answers : IsToolBatch(Answers[i])
\* the completion client calls it has started when none has failed: one for
\* each answer and the one in flight
ClientCallsStarted ==
    Len(Answers) + (IF r_pc = "in_call" /\ func = "_call_openai" THEN op_calls
                    ELSE 0)

C2_NoticeOnlyOnCap ==
    \A i \in DOMAIN trace :
        IsMaxNotice(trace[i])
        => /\ Len(Answers) = max_iterations
           /\ IsToolBatch(Answers[Len(Answers)])

\* C3: a finished chat() that started on an empty transcript and whose first
\* completion call returned finish_reason = stop with a non-empty text T has
\* emitted exactly one chunk, T, and leaves the transcript
\* [system, user, assistant(T)].
C3_FreshStop ==
    (/\ FreshTurnDone
     /\ Answers[1].ev = "response" /\ Answers[1].kind = "stop"
     /\ Answers[1].arg # "")
    => /\ Len(Chunks) = 1
       /\ Chunks[1].kind = "content" /\ Chunks[1].arg = Answers[1].arg
       /\ conversation_history =
              << SystemMessage,
                 ChatMessage("user", trace[1].kind, "", NoId, <<>>),
                 ChatMessage("assistant", Answers[1].arg, "", NoId, <<>>) >>

C3_Witness ==
    /\ FreshTurnDone
    /\ Answers[1].ev = "response" /\ Answers[1].kind = "stop"
    /\ Answers[1].arg = "Hello"
    /\ Len(conversation_history) = 3

\* C4: a finished chat() that started on an empty transcript, whose first
\* call returned tool_calls with one invocation of a registered tool and
\* whose second call returned stop with a non-empty text D, leaves the
\* transcript system, user, assistant(tool_calls), tool(result, keyed by the
\* invocation's id and tool name), assistant(D), and the caller got the
\* tool-start notice before D.
C4_OneToolRound ==
    (/\ FreshTurnDone
     /\ Len(Answers) = 2
     /\ IsToolBatch(Answers[1]) /\ Len(Answers[1].id) = 1
     /\ Answers[2].ev = "response" /\ Answers[2].kind = "stop"
     /\ Answers[2].arg # "")
    => LET h == conversation_history
           id == Answers[1].id[1]
       IN /\ Len(h) = 5
          /\ h[1] = SystemMessage
          /\ h[2] = ChatMessage("user", trace[1].kind, "", NoId, <<>>)
          /\ h[3].role = "assistant" /\ h[3].content = ""
          /\ Len(h[3].tool_calls) = 1 /\ h[3].tool_calls[1].id = id
          /\ h[3].tool_calls[1].function.name \in RegisteredTools
          /\ h[4].role = "tool" /\ h[4].tool_call_id = id
          /\ h[4].name = h[3].tool_calls[1].function.name
          /\ h[4].content =
                 json_dumps(execute_tool(h[4].name,
                     json_loads(h[3].tool_calls[1].function.arguments).value))
          /\ h[5] = ChatMessage("assistant", Answers[2].arg, "", NoId, <<>>)
          /\ Chunks[1].kind = "tool_start" /\ Chunks[1].arg = h[4].name
          /\ Chunks[Len(Chunks)].kind = "content"
          /\ Chunks[Len(Chunks)].arg = Answers[2].arg
          /\ \A i \in 1..(Len(Chunks) - 1) : Chunks[i].kind # "content"

C4_Witness ==
    /\ FreshTurnDone
    /\ Len(Answers) = 2
    /\ IsToolBatch(Answers[1]) /\ Len(Answers[1].id) = 1
    /\ Answers[2].ev = "response" /\ Answers[2].kind = "stop"
    /\ Answers[2].arg = "Hello"
    /\ Len(conversation_history) = 5

\* C5: between chats (after any chats run to their end and any resets),
\* every tool message of the transcript carries the id of a tool_calls entry
\* of an assistant message that stands earlier in the transcript.
C5_ToolMessageRefersBack ==
    pc = "idle"
    => \A i \in DOMAIN conversation_history :
          conversation_history[i].role = "tool"
          => \E j \in 1..(i - 1) :
                /\ conversation_history[j].role = "assistant"
                /\ \E k \in DOMAIN conversation_history[j].tool_calls :
                      conversation_history[j].tool_calls[k].id =
                          conversation_history[i].tool_call_id

C5_Witness ==
    /\ pc = "idle" /\ sends = 2
    /\ Cardinality({i \in DOMAIN conversation_history :
                       conversation_history[i].role = "tool"}) >= 5

\* C6: between chats, a non-empty transcript starts with the system message
\* and holds no other system message.
C6_OneSystemMessageFirst ==
    (pc = "idle" /\ conversation_history # <<>>)
    => /\ conversation_history[1] = SystemMessage
       /\ \A i \in 2..Len(conversation_history) :
             conversation_history[i].role # "system"

C6_Witness ==
    /\ pc = "idle" /\ sends = 2 /\ turn_count = 2
    /\ Len(conversation_history) >= 4

\* the trace from position p + 1 up to the next completion call, or to the
\* iteration-exhausted notice, or to its end
BatchEnd(p) ==
    LET later == {q \in (p + 1)..Len(trace) :
                     trace[q].ev = "call" \/ IsMaxNotice(trace[q])}
    IN IF later = {} THEN Len(trace) + 1
       ELSE CHOOSE q \in later : \A r \in later : q <= r
\* the start notices, dispatches and appends of the batch answered at p
BatchSteps(p) ==
    SelectSeq(SubSeq(trace, p + 1, BatchEnd(p) - 1),
              LAMBDA e : \/ e.ev \in {"dispatch", "append"}
                         \/ e.ev = "chunk" /\ e.kind = "tool_start")
\* the m-th of these steps is the right step of the right invocation
StepInOrder(ids, steps, m) ==
    LET e == steps[m]
        step == (m - 1) % 3
    IN /\ e.id = ids[((m - 1) \div 3) + 1]
       /\ e.ev = IF step = 0 THEN "chunk"
                 ELSE IF step = 1 THEN "dispatch" ELSE "append"
\* no tool invocation is being worked on
BetweenBatches == pc \notin {"y_tool", "executing", "y_formatted"}

Retryable(t) == classify_error(t).retryable
RetryEnded == r_pc \in {"returned", "raised"}
NonRetryableClasses ==
    {"AuthenticationError", "InvalidRequestError",
     "ContextLengthExceededError"}
\* the failures the scripted operation can show
ScriptFailures == {script.fails[i] : i \in DOMAIN script.fails}

\* C8: with_retry on an operation whose first call fails and whose every
\* failure classifies as non-retryable (authentication, invalid request,
\* context length) calls it exactly once, never sleeps and raises the
\* classified error of that failure, for every max_retries >= 0.
C8_NonRetryableOnce ==
    (/\ func = "flaky_function"
     /\ script.fails # <<>>
     /\ \A t \in ScriptFailures : ~Retryable(t))
    => /\ op_calls = 1
       /\ sleeps = <<>> /\ r_pc # "sleeping"
       /\ RetryEnded
          => /\ r_pc = "raised"
             /\ r_result = Raised(classify_error(script.fails[1]))
             /\ r_result.value.cls \in NonRetryableClasses
             /\ outcomes = <<Raised(script.fails[1])>>

C8_Witness ==
    /\ func = "flaky_function"
    /\ script.fails # <<>>
    /\ \A t \in ScriptFailures : ~Retryable(t)
    /\ r_pc = "raised" /\ max_retries = MaxRetriesArg /\ op_calls = 1

\* C9: with_retry on an operation that fails k times with retryable errors,
\* k < max_retries, and then succeeds returns the operation's value after
\* exactly k + 1 calls.
C9_SucceedsAfterRetries ==
    (/\ func = "flaky_function"
     /\ script.then = "return"
     /\ \A t \in ScriptFailures : Retryable(t)
     /\ Len(script.fails) < max_retries)
    => /\ op_calls <= Len(script.fails) + 1
       /\ RetryEnded
          => /\ r_pc = "returned"
             /\ r_result = Returned(FlakyValue)
             /\ op_calls = Len(script.fails) + 1
             /\ Len(sleeps) = Len(script.fails)

C9_Witness ==
    /\ func = "flaky_function"
    /\ script.then = "return"
    /\ \A t \in ScriptFailures : Retryable(t)
    /\ Len(script.fails) = 2 /\ max_retries = 3
    /\ r_pc = "returned" /\ op_calls = 3

\* C10: with_retry on an operation that always fails with retryable errors
\* calls it max_retries + 1 times, never more, one call at a time, and then
\* raises the classified error of the last failure.
C10_ExhaustsBudget ==
    (/\ func = "flaky_function"
     /\ script.then = "raise"
     /\ \A t \in ScriptFailures : Retryable(t))
    => /\ op_calls <= max_retries + 1
       /\ op_calls - Len(outcomes) = IF r_pc = "in_call" THEN 1 ELSE 0
       /\ r_pc # "returned"
       /\ RetryEnded
          => /\ op_calls = max_retries + 1
             /\ Len(sleeps) = max_retries
             /\ r_result =
                    Raised(classify_error(
                               ScriptAt(script, max_retries + 1).value))
             /\ outcomes[Len(outcomes)] = ScriptAt(script, max_retries + 1)

C10_Witness ==
    /\ func = "flaky_function"
    /\ script.then = "raise"
    /\ \A t \in ScriptFailures : Retryable(t)
    /\ Len(script.fails) = 2 /\ script.fails[1] # script.fails[2]
    /\ r_pc = "raised" /\ max_retries = 3 /\ op_calls = 4

\* the class of the i-th failure the operation showed
FailureClass(i) == classify_error(outcomes[i].value).cls

\* C11: the sleep after the failed attempt with 0-based index i that is
\* retried lasts 60 for a rate-limit failure, 30 for a service-unavailable
\* failure, otherwise base_delay * 2^i with exponential backoff and
\* base_delay without; there is one sleep for each failure retried and none
\* after a success or after the failure that is raised.
C11_Delays ==
    func = "flaky_function"
    => /\ Len(sleeps) = Len(outcomes) - (IF RetryEnded THEN 1 ELSE 0)
       /\ r_pc = "sleeping" => Len(sleeps) = attempt + 1
       /\ \A n \in DOMAIN sleeps :
             /\ ~outcomes[n].ok
             /\ sleeps[n] =
                    IF FailureClass(n) = "RateLimitError" THEN 60
                    ELSE IF FailureClass(n) = "ServiceUnavailableError" THEN 30
                    ELSE IF exponential_backoff THEN base_delay * (2 ^ (n - 1))
                    ELSE base_delay

C11_Witness ==
    /\ func = "flaky_function" /\ r_pc = "raised"
    /\ exponential_backoff /\ base_delay = 2
    /\ sleeps = <<2, 60, 8>>

(***************************************************************************)
(* Claims about classify_error (SpecClassify).                             *)
(***************************************************************************)
\* the markers the text holds, by their place in ErrorPieces; the phrase
\* "invalid api key" holds the markers "invalid" and "api key"
MarkersInText ==
    (error_markers \cap 1..12)
    \cup (IF 13 \in error_markers THEN {5, 7} ELSE {})
HasMarker(group) == MarkersInText \cap group # {}
\* the class the precedence rate limit, authentication, invalid request,
\* availability, context length gives the text
ExpectedClass ==
    IF HasMarker({1, 2}) THEN "RateLimitError"
    ELSE IF HasMarker({3, 4, 5}) THEN "AuthenticationError"
    ELSE IF HasMarker({6, 7}) THEN "InvalidRequestError"
    ELSE IF HasMarker({8, 9, 10}) THEN "ServiceUnavailableError"
    ELSE IF HasMarker({11, 12}) THEN "ContextLengthExceededError"
    ELSE "OpenAIError"
ClassifyDone == classified # NoClassified

\* C12: for every text built from any subset of the markers, in either
\* order and either case, classify_error returns the class of the first
\* marker group present, in the order rate limit, authentication, invalid
\* request, availability, context length, and the unknown class (retryable,
\* no retry_after) when none is; rate limit, availability and unknown are
\* retryable, the other three are not.
C12_Precedence ==
    ClassifyDone
    => /\ classified.cls = ExpectedClass
       /\ classified.retryable =
              (classified.cls \in {"RateLimitError", "ServiceUnavailableError",
                                   "OpenAIError"})
       /\ classified.cls = "OpenAIError" => classified.retry_after = NoneInt
       /\ classified.message = error

C12_Witness ==
    /\ ClassifyDone
    /\ {4, 6, 8, 11} \subseteq error_markers /\ ~HasMarker({1, 2})
    /\ error # Lower(error) /\ error[8] = "T"
    /\ classified.cls = "AuthenticationError"

\* C13 (as claimed): every text that holds "401" or "invalid api key" is
\* classified as an authentication failure, not retryable.
C13_AuthAlways ==
    (ClassifyDone /\ (4 \in error_markers \/ 13 \in error_markers))
    => /\ classified.cls = "AuthenticationError"
       /\ ~classified.retryable

\* C13 (amended): every text that holds "401" or "invalid api key" and no
\* rate-limit marker ("rate limit", "429") is classified as an
\* authentication failure, not retryable.
C13_AuthUnlessRateLimit ==
    (/\ ClassifyDone
     /\ 4 \in error_markers \/ 13 \in error_markers
     /\ ~HasMarker({1, 2}))
    => /\ classified.cls = "AuthenticationError"
       /\ ~classified.retryable

C13_Witness ==
    /\ ClassifyDone
    /\ error_markers = {6, 9, 13}
    /\ classified.cls = "AuthenticationError" /\ ~classified.retryable

(***************************************************************************)
(* More claims about DexterAgent.chat and reset_conversation (Spec).       *)
(***************************************************************************)
ErrorClasses ==
    {"RateLimitError", "AuthenticationError", "InvalidRequestError",
     "ServiceUnavailableError", "ContextLengthExceededError", "OpenAIError"}
IsPrefix(a, b) == Len(a) <= Len(b) /\ SubSeq(b, 1, Len(a)) = a

\* C14: when _call_openai raises a classified error, chat() yields one
\* error notice, carrying the classified message, right away; after it the
\* turn makes no completion call, dispatches no tool, appends nothing and
\* yields no text, and ends without raising; the next chat() on the same
\* agent appends its user message and goes to its completion call as usual.
C14_ErrorEndsTurn ==
    /\ \A p \in DOMAIN trace :
          trace[p].ev = "raised"
          => /\ trace[p].kind \in ErrorClasses
             /\ call_failed
             /\ p < Len(trace)
             /\ trace[p + 1].ev = "chunk" /\ trace[p + 1].kind = "error"
             /\ trace[p + 1].arg = trace[p].arg
             /\ \A q \in (p + 2)..Len(trace) : IsMaxNotice(trace[q])
             /\ pc \in {"y_error", "y_max", "idle"}
             /\ r_pc = "idle"
    /\ Cardinality({i \in DOMAIN trace :
                       trace[i].ev = "chunk" /\ trace[i].kind = "error"}) <= 1
    /\ (trace # <<>> /\ trace[1].id = 1)
       => /\ Len(trace) >= 2 /\ trace[2].ev = "call"
          /\ trace[1].arg < Len(conversation_history)
          /\ conversation_history[trace[1].arg + 1] =
                 ChatMessage("user", trace[1].kind, "", NoId, <<>>)
          /\ conversation_history[1] = SystemMessage

C14_Witness ==
    /\ TurnDone /\ trace[1].id = 1
    /\ Len(Answers) = 2 /\ IsToolBatch(Answers[1])
    /\ Answers[2].ev = "response" /\ Answers[2].kind = "stop"
    /\ Answers[2].arg = "Hello"
    /\ conversation_history[Len(conversation_history)] =
           ChatMessage("assistant", "Hello", "", NoId, <<>>)

\* C15: every step leaves the transcript as it was or appends to it, except
\* reset_conversation between chats, which empties it; the step in which
\* the error is caught and the steps after it change nothing, so what the
\* failing turn appended stays.
C15_AppendOnly ==
    [][ /\ \/ IsPrefix(conversation_history, conversation_history')
           \/ /\ pc = "idle" /\ pc' = "idle"
              /\ conversation_history' = <<>> /\ turn_count' = 0
        /\ (pc' = "y_error" \/ pc = "y_error")
           => conversation_history' = conversation_history ]_vars

C15_Witness ==
    /\ TurnDone /\ sends = 2
    /\ \E p \in DOMAIN trace : trace[p].ev = "raised"
    /\ \E p \in DOMAIN trace : trace[p].ev = "append"
    /\ Len(conversation_history) >= 6
    /\ conversation_history[Len(conversation_history)].role = "tool"

\* the dispatch of the invocation whose tool message was appended at q
DispatchOf(q) ==
    CHOOSE d \in 1..q :
        trace[d].ev = "dispatch" /\ trace[d].id = trace[q].id
\* the raw arguments the completion service gave for invocation id
RawArgumentsOf(id) ==
    LET j == CHOOSE j \in DOMAIN conversation_history :
                 \E k \in DOMAIN conversation_history[j].tool_calls :
                     conversation_history[j].tool_calls[k].id = id
        k == CHOOSE k \in DOMAIN conversation_history[j].tool_calls :
                 conversation_history[j].tool_calls[k].id = id
    IN conversation_history[j].tool_calls[k].function.arguments
\* the tool message of invocation id is in the transcript with content c
ToolMessageIn(id, name, c) ==
    \E i \in DOMAIN conversation_history :
        conversation_history[i] = ChatMessage("tool", c, name, id, <<>>)
\* what follows the append at q: the next invocation's notice, the next
\* completion call, or the iteration-exhausted notice
GoesOnAfter(q) ==
    /\ q < Len(trace)
    /\ \/ trace[q + 1].ev = "call"
       \/ trace[q + 1].ev = "chunk"
          /\ trace[q + 1].kind \in {"tool_start", "max_iterations"}

\* C16: a dispatched invocation always ends in a result that is appended as
\* a tool message, after which the driver goes on: for an unregistered name
\* the result is an error result with a non-empty error naming the tool,
\* for a handler that raises it is an error result with the exception's
\* message and the tool's name.
C16_DispatchNeverRaises ==
    /\ pc = "executing"
       => execute_tool(response.tool_calls[tool_idx].name, tool_input).keys
              # {}
    /\ \A q \in DOMAIN trace :
          trace[q].ev = "append"
          => LET d == DispatchOf(q)
                 name == trace[d].kind
                 result == trace[q].arg
             IN /\ \E e \in 1..q : trace[e].ev = "dispatch"
                                   /\ trace[e].id = trace[q].id
                /\ ToolMessageIn(trace[q].id, name, result)
                /\ GoesOnAfter(q)
                /\ name \notin RegisteredTools
                   => /\ result.json = "{error, tool_name}"
                      /\ result.error = <<"Unknown tool: ", name>>
                      /\ result.tool_name = name
                /\ (name \in RegisteredTools /\ trace[d].arg = EmptyInput)
                   => /\ result.json = "{error, tool_name}"
                      /\ result.error = <<"missing required arguments">>
                      /\ result.tool_name = name

C16_Witness ==
    /\ TurnDone
    /\ Answers[Len(Answers)].ev = "response"
    /\ Answers[Len(Answers)].kind = "stop"
    /\ \E q \in DOMAIN trace :
          /\ trace[q].ev = "append" /\ trace[q].kind = "no_such_tool"
          /\ trace[q].arg.tool_name = "no_such_tool"
    /\ \E q \in DOMAIN trace :
          /\ trace[q].ev = "append" /\ trace[q].kind = "calculate_pnl"
          /\ trace[q].arg.error = <<"missing required arguments">>

StartedEmpty ==
    /\ trace # <<>>
    /\ trace[1].ev = "send"
    /\ trace[1].arg = 0

\* C18: a reset between two chats leaves the transcript empty, turn_count 0
\* and the configuration as constructed; a chat that starts on the emptied
\* transcript goes as the first chat of a new agent: it counts as turn 1 and
\* seeds the transcript with the system prompt before the user message.
C18_ResetIsFresh ==
    /\ [][(pc = "idle" /\ pc' = "idle")
          => /\ conversation_history' = <<>>
             /\ turn_count' = 0
             /\ UNCHANGED configVars
             /\ UNCHANGED <<iteration, response, tool_idx, tool_input,
                            tool_result, retryVars>>]_vars
    /\ [](/\ ConfigInit
          /\ pc = "idle" /\ conversation_history = <<>>
             => /\ turn_count = 0 /\ iteration = 0 /\ response = NoResponse
                /\ r_pc = "idle"
          /\ StartedEmpty
             => /\ turn_count = 1
                /\ Len(conversation_history) >= 2
                /\ conversation_history[1] = SystemMessage
                /\ conversation_history[2] =
                       ChatMessage("user", trace[1].kind, "", NoId, <<>>)
                /\ trace[2].ev = "call" /\ trace[2].arg = 1)

C18_Witness ==
    /\ sends = 2
    /\ StartedEmpty
    /\ TurnDone
    /\ turn_count = 1
    /\ conversation_history[1] = SystemMessage

\* the admissions whose timestamps are newer than now - time_window
RecentAdmissions ==
    {i \in DOMAIN admitted : admitted[i].at > clock - time_window}

\* C19: whatever the interleaving of the callers, the admissions newer than
\* now - time_window never number more than max_requests, the list holds
\* exactly the admission timestamps it has not pruned, and a caller that is
\* asleep has not been admitted for the call it is in.
C19_WindowNeverExceeded ==
    /\ max_requests >= 1
    /\ Cardinality(RecentAdmissions) <= max_requests
    /\ Len(SelectSeq(requests, LAMBDA ts : ts > clock - time_window))
           <= max_requests
    /\ Len(SelectSeq(requests, LAMBDA ts : ts > clock - time_window))
           = Cardinality(RecentAdmissions)
    /\ Len(admitted) + Cardinality({c \in Callers : acq_pc[c] = "sleeping"})
           = calls
    /\ \A c \in Callers :
          acq_pc[c] = "sleeping"
          => /\ wake_at[c] > 0
             /\ wake_at[c] <= clock + time_window

C19_Witness ==
    /\ Cardinality(Callers) = 2
    /\ max_requests = 1
    /\ Len(admitted) >= 2
    /\ admitted[2].slept
    /\ \A c \in Callers : acq_pc[c] = "sleeping" /\ wake_at[c] > clock

\* C20: with one caller making its acquire() calls one after the other, the
\* first max_requests calls are admitted at once and admission number
\* max_requests + i comes no earlier than time_window after admission i.
C20_SlidingWindow ==
    Callers = {1}
    => /\ \A i \in DOMAIN admitted :
             i <= max_requests => ~admitted[i].slept
       /\ \A i \in DOMAIN admitted :
             i > max_requests
             => admitted[i].at >= admitted[i - max_requests].at + time_window

C20_Witness ==
    /\ Callers = {1}
    /\ max_requests = 3 /\ time_window = 2
    /\ Len(admitted) = 5
    /\ admitted[1].at < admitted[2].at
    /\ admitted[4].slept /\ admitted[5].slept
    /\ admitted[4].at = admitted[1].at + time_window
    /\ admitted[5].at = admitted[2].at + time_window

(***************************************************************************)
(* Claims about the completion calls of chat() and the RateLimiter (Spec). *)
(***************************************************************************)
\* C21: every attempt of chat() to call the completion service comes after
\* a RateLimiter admission granted for it: while an attempt is in flight the
\* limiter has admitted at least as many acquire() calls as the current
\* _call_openai has made attempts.
C21_AttemptsAdmitted ==
    (r_pc = "in_call" /\ func = "_call_openai")
    => /\ admitted # <<>>
       /\ Len(admitted) >= op_calls

(***************************************************************************)
(* Claims about estimate_tokens (SpecEstimate).                            *)
(***************************************************************************)
\* the smallest integer not below n / 4
CeilQuarter(n) == (n + 3) \div 4

\* C23: estimate_tokens(text) is max(1, ceil(len(text) / 4)) for every
\* text, the empty one and those whose length is no multiple of 4 included.
C23_CeilEstimate ==
    tokens # NoneInt
    => tokens = IF CeilQuarter(Len(text)) > 1 THEN CeilQuarter(Len(text))
                ELSE 1

(***************************************************************************)
(* Claims about trim_conversation_history (SpecTrim).                      *)
(***************************************************************************)
SystemOf(ms) == SelectSeq(ms, LAMBDA m : m.role = "system")
OthersOf(ms) == SelectSeq(ms, LAMBDA m : m.role # "system")
\* the suffix of ms that starts at position k
SuffixFrom(ms, k) == SubSeq(ms, k, Len(ms))
\* the start of the longest suffix of ms whose estimated tokens fit in
\* budget (Len(ms) + 1: only the empty suffix fits)
LongestFit(ms, budget) ==
    CHOOSE k \in 1..(Len(ms) + 1) :
        /\ SumTokens(SuffixFrom(ms, k)) <= budget
        /\ \A j \in 1..(k - 1) : SumTokens(SuffixFrom(ms, j)) > budget

\* C22: trim returns the system messages in their order followed by the
\* longest suffix of the other messages, in their order, whose estimated
\* tokens fit in max_tokens less the system messages' estimated tokens.
C22_SystemThenLongestSuffix ==
    trim_returned
    => LET budget == max_tokens - SumTokens(SystemOf(messages))
       IN /\ budget >= 0
             => trimmed = SystemOf(messages)
                          \o SuffixFrom(OthersOf(messages),
                                        LongestFit(OthersOf(messages),
                                                   budget))
          /\ budget < 0 => trimmed = SystemOf(messages)

\* the example scaled down: a system message of 2 tokens, a budget of 5 and
\* three other messages of 2 tokens each give the system message and the
\* most recent message (2 + 2 fits, 2 + 4 does not)
C22_Witness ==
    /\ trim_returned
    /\ max_tokens = 5
    /\ Len(messages) = 4
    /\ messages[1].role = "system" /\ Len(messages[1].content) = 8
    /\ \A i \in 2..4 : /\ messages[i].role # "system"
                       /\ Len(messages[i].content) = 8
    /\ messages[3] # messages[4]
    /\ trimmed = <<messages[1], messages[4]>>

\* the tool messages of ms refer to earlier assistant requests: before each
\* there is an assistant message whose tool_calls hold its tool_call_id
RefersBack(ms) ==
    \A i \in DOMAIN ms :
        ms[i].role = "tool"
        => \E j \in 1..(i - 1) :
              /\ ms[j].role = "assistant"
              /\ \E k \in DOMAIN ms[j].tool_calls :
                    ms[j].tool_calls[k].id = ms[i].tool_call_id

\* C26: given a transcript whose tool messages all refer back to an earlier
\* assistant request, trim's output has the same property: no tool message
\* is kept without the assistant message that requested it.
C26_TrimKeepsRequests ==
    (trim_returned /\ RefersBack(messages)) => RefersBack(trimmed)

\* C30: when the system messages' estimated tokens fit in max_tokens, so do
\* those of trim's whole output; when they do not, trim's output is exactly
\* the system messages.
C30_WithinBudget ==
    trim_returned
    => IF SumTokens(SystemOf(messages)) <= max_tokens
       THEN SumTokens(trimmed) <= max_tokens
       ELSE /\ trimmed = SystemOf(messages)
            /\ SumTokens(trimmed) > max_tokens

C30_Witness ==
    /\ trim_returned
    /\ SumTokens(SystemOf(messages)) = 3
    /\ SumTokens(messages) > max_tokens
    /\ max_tokens = 5
    /\ SumTokens(trimmed) = 5
    /\ Len(trimmed) < Len(messages)

(***************************************************************************)
(* Claims about the end of chat() (SpecFair).                              *)
(***************************************************************************)
\* C24: when every awaited operation comes back and the caller keeps
\* consuming, a chat() that has started comes to its end; on the way it
\* makes at most max_iterations completion client calls, and each of them
\* at most max_retries + 1 service attempts.
C24_SendTerminates ==
    /\ (pc # "idle") ~> (pc = "idle")
    /\ [](/\ NCalls <= max_iterations
          /\ func = "_call_openai"
             => /\ op_calls <= call_openai_max_retries + 1
                /\ Len(outcomes) <= call_openai_max_retries + 1)

C24_Witness ==
    /\ TurnDone
    /\ NCalls = max_iterations
    /\ Answers[max_iterations].ev = "raised"
    /\ Answers[max_iterations].kind = "ServiceUnavailableError"
    /\ \E i \in DOMAIN Answers :
          Answers[i].ev = "response" /\ Answers[i].kind = "tool_calls"

(***************************************************************************)
(* Claims about the assistant entries of the transcript (Spec).            *)
(***************************************************************************)
\* the assistant messages the chat() in progress or last run has appended
AssistantAppended ==
    Cardinality({i \in DOMAIN conversation_history :
                    /\ i > trace[1].arg
                    /\ conversation_history[i].role = "assistant"})
\* the completion-service responses it has received
ResponsesReceived ==
    Cardinality({q \in DOMAIN trace : trace[q].ev = "response"})

\* C25: each completion-service response adds exactly one assistant message
\* to the transcript, whatever its finish reason: a chat() has appended as
\* many assistant messages as it has received responses.
C25_OneAssistantPerResponse ==
    trace # <<>> => AssistantAppended = ResponsesReceived

(***************************************************************************)
(* Claims about chat() given up or interleaved with other calls            *)
(* (SpecAbandon, SpecShared).                                              *)
(***************************************************************************)
\* every assistant message of transcript h that asks for invocations is
\* followed by one tool message for each of them, in their order
RequestsAnswered(h) ==
    \A j \in DOMAIN h :
        \A k \in DOMAIN h[j].tool_calls :
            /\ j + k <= Len(h)
            /\ h[j + k].role = "tool"
            /\ h[j + k].tool_call_id = h[j].tool_calls[k].id

\* C27: after a chat() was given up at a yield, whenever a later chat()
\* issues a completion call the transcript it passes has, after every
\* assistant message with tool_calls, the tool messages of its invocations.
C27_NoDanglingRequests ==
    (pc = "calling" /\ r_pc = "in_call" /\ op_calls = 1)
    => RequestsAnswered(conversation_history)

\* C29: a non-empty transcript begins with the system message and each of
\* its tool messages comes after the assistant message that requested it,
\* also when reset_conversation() runs while a chat() is suspended at a
\* yield and the chat() is resumed afterwards.
C29_TranscriptWellFormed ==
    /\ conversation_history # <<>>
       => conversation_history[1] = SystemMessage
    /\ RefersBack(conversation_history)

\* C28: a call of _execute_tool for a tool of the catalogue whose tool_input
\* conforms to the tool's schema (every required name is a key, every key is
\* a declared name) does not come back as the error result: the handler
\* accepts every name the schema declares
C28_SchemaCallsBind ==
    ( /\ call_result # NoToolResult
      /\ call_name \in tools
      /\ SchemaRequired(call_name) \subseteq call_keys
      /\ call_keys \subseteq SchemaProperties(call_name) )
    => call_result.keys # {"error", "tool_name"}

(***************************************************************************)
(* Claims about a tool_calls response without invocations, and about       *)
(* turn_count (Spec).                                                      *)
(***************************************************************************)
\* a response with finish_reason = tool_calls that asks for no invocation
EmptyToolCalls(e) == e.ev = "response" /\ e.kind = "tool_calls" /\ e.id = <<>>
\* the last answer in trace tr is one
EndsWithEmptyToolCalls(tr) ==
    \E p \in DOMAIN tr :
        /\ EmptyToolCalls(tr[p])
        /\ \A q \in (p + 1)..Len(tr) : tr[q].ev \notin {"response", "raised"}

\* C31: a response with finish_reason = tool_calls and no invocations is
\* handled like an unexpected finish reason: the step that receives it and
\* the rest of the chat() leave the transcript as it is; after it the chat()
\* makes no completion call and dispatches nothing; it yields the response
\* text exactly when there is one, and then ends (after the iteration-cap
\* notice when this was the last iteration).
C31_EmptyToolCallsEndTurn ==
    /\ [][ (EndsWithEmptyToolCalls(trace') /\ pc # "idle")
           => conversation_history' = conversation_history ]_vars
    /\ [](\A p \in DOMAIN trace :
            EmptyToolCalls(trace[p])
            => /\ pc \in {"y_other", "y_max", "idle"}
               /\ r_pc = "idle"
               /\ IF trace[p].arg # ""
                  THEN /\ p < Len(trace)
                       /\ trace[p + 1] = Chunk("content", trace[p].arg, NoId)
                       /\ \A q \in (p + 2)..Len(trace) : IsMaxNotice(trace[q])
                  ELSE \A q \in (p + 1)..Len(trace) : IsMaxNotice(trace[q]))

C31_Witness ==
    /\ TurnDone /\ ~call_failed
    /\ Len(Answers) = 2 /\ IsToolBatch(Answers[1])
    /\ EmptyToolCalls(Answers[2]) /\ Answers[2].arg = "Hello"
    /\ trace[Len(trace)] = Chunk("content", "Hello", NoId)
    /\ conversation_history[Len(conversation_history)].role = "tool"

\* the user messages in the transcript
UserMessagesIn(h) == Cardinality({i \in DOMAIN h : h[i].role = "user"})

\* C32: with every chat() run to its end and reset_conversation called
\* between chats, turn_count is the number of user messages in the
\* transcript and is 0 exactly when the transcript is empty; the start of a
\* chat() adds one to it, and no other step changes it except
\* reset_conversation, which sets it to 0 and empties the transcript.
C32_TurnCountCountsUsers ==
    /\ [](/\ turn_count = UserMessagesIn(conversation_history)
          /\ (turn_count = 0 <=> conversation_history = <<>>))
    /\ [][ /\ sends' = sends + 1 => turn_count' = turn_count + 1
           /\ sends' = sends
              => \/ turn_count' = turn_count
                 \/ /\ pc = "idle" /\ turn_count' = 0
                    /\ conversation_history' = <<>> ]_vars

C32_Witness ==
    /\ TurnDone /\ sends = 2 /\ turn_count = 2
    /\ trace[1].arg > 0
    /\ UserMessagesIn(conversation_history) = 2
    /\ Len(conversation_history) > 3

(***************************************************************************)
(* More claims about the RateLimiter (SpecLimiterFair, SpecLimiter).       *)
(***************************************************************************)
\* C33: with max_requests >= 1, time that goes on and finitely many
\* acquire() calls, a caller asleep in acquire() is admitted later: its call
\* returns with an admission recorded no earlier than its sleep was due, and
\* in the end no caller is left waiting and every call made has its
\* admission.
C33_AcquireReturns ==
    /\ \A c \in 1..MaxCallers :
          (c \in Callers /\ acq_pc[c] = "sleeping")
          ~> (c \in Callers /\ acq_pc[c] = "out"
              /\ \E i \in DOMAIN admitted :
                    admitted[i].slept /\ admitted[i].at >= wake_at[c])
    /\ <>[](\A c \in Callers : acq_pc[c] = "out" /\ Len(admitted) = calls)

C33_Witness ==
    /\ Cardinality(Callers) = 3 /\ max_requests = 1 /\ time_window = 2
    /\ calls = MaxAcquires /\ Len(admitted) = calls
    /\ Cardinality({i \in DOMAIN admitted : admitted[i].slept}) >= 4
    /\ clock > MaxTime
    /\ \A c \in Callers : acq_pc[c] = "out"

\* C34: under every interleaving of the callers the list of timestamps is in
\* non-decreasing order, so that its first entry is its oldest, and it never
\* holds more than max_requests entries; an admission is appended as the
\* newest entry.
C34_TimestampsInOrder ==
    /\ \A i \in DOMAIN requests : \A j \in DOMAIN requests :
          i < j => requests[i] <= requests[j]
    /\ \A i \in DOMAIN requests : requests[1] <= requests[i]
    /\ Len(requests) <= max_requests
    /\ \A i \in DOMAIN requests : requests[i] <= clock

C34_Witness ==
    /\ Cardinality(Callers) = 3 /\ max_requests = 2 /\ time_window = 2
    /\ Len(requests) = 2 /\ requests[1] < requests[2]
    /\ Len(admitted) >= 3 /\ admitted[Len(admitted)].slept
    /\ Cardinality({c \in Callers : acq_pc[c] = "sleeping"}) = 2

(***************************************************************************)
(* More claims about trim_conversation_history (SpecTrim).                 *)
(***************************************************************************)
\* C35: trimming what trim_conversation_history returned, with the same
\* max_tokens, gives it back unchanged; and the call leaves the list it was
\* given as it is.
C35_TrimIdempotent ==
    /\ [](trim_returned
          => trim_conversation_history(trimmed, max_tokens) = trimmed)
    /\ [][messages' = messages]_vars

C35_Witness ==
    /\ trim_returned
    /\ Len(trimmed) >= 3 /\ Len(trimmed) < Len(messages)
    /\ messages[1].role # "system" /\ trimmed[1].role = "system"
    /\ trimmed[Len(trimmed)] = messages[Len(messages)]
    /\ trim_conversation_history(trimmed, max_tokens) = trimmed

(***************************************************************************)
(* More claims about classify_error (SpecClassify).                        *)
(***************************************************************************)
\* the error generate_response raises when the transport raised text t
Wrapped(t) == generate_response(Raised(t)).value
\* classify_error gives t and the wrapped t the same class and retryability
SameDecision(t) ==
    /\ classify_error(Wrapped(t)).cls = classify_error(t).cls
    /\ classify_error(Wrapped(t)).retryable = classify_error(t).retryable
\* the text without its leading "Error: ", so that it starts with a marker
Bare(t) == SubSeq(t, Len(ErrorPrefix) + 2, Len(t))

\* C36: the error generate_response raises for a transport failure is
\* classified like the failure itself: for every original text, with or
\* without text before its first marker, classify_error gives the wrapped
\* error the class and the retryability it gives the original.
C36_WrappingKeepsClass ==
    ClassifyDone
    => /\ classified = classify_error(error)
       /\ classify_error(Wrapped(error)).cls = classified.cls
       /\ classify_error(Wrapped(error)).retryable = classified.retryable
       /\ SameDecision(Bare(error))

C36_Witness ==
    /\ ClassifyDone
    /\ {4, 8} \subseteq error_markers /\ ~HasMarker({1, 2})
    /\ classified.cls = "AuthenticationError" /\ ~classified.retryable
    /\ Wrapped(error) = ServiceErrorPrefix \o error
    /\ classify_error(Wrapped(error)).cls = "AuthenticationError"
    /\ classify_error(Wrapped(error)).message # classified.message
    /\ Bare(error)[1] = "4"

====
